---- MODULE Spec2Model ----
(***************************************************************************)
(* Model of @umi-top/umi-core-js (lib/index.mjs): Address, PublicKey,       *)
(* SecretKey and Transaction value objects over fixed byte buffers, the     *)
(* Bech32 address codec, the integer codecs and the Ed25519 sign/verify     *)
(* composition.                                                             *)
(*                                                                          *)
(* Representation.                                                          *)
(*  - A byte array is a sequence of integers (index i of the source is      *)
(*    index i+1 here).                                                      *)
(*  - A string is the sequence of its UTF-16 code units.                    *)
(*  - A JavaScript number is a record: an integer carries its magnitude as  *)
(*    9 big-endian base-256 digits (values up to 2^72-1), because the       *)
(*    64-bit fields do not fit the model checker's integers.                *)
(*  - A call returns a record with the field `raised` (and `err`, the       *)
(*    message of the Error) next to its value.                              *)
(*  - SHA-256/SHA-512 and the Curve25519 group are replaced by small        *)
(*    stand-ins with the same interface and the same algebra (a cyclic      *)
(*    group of order L with generator B, hashes that mix every input        *)
(*    byte); the composition in secretKeyFromSeed, sign and verify follows  *)
(*    the source step by step.                                              *)
(***************************************************************************)
EXTENDS Integers, Sequences, FiniteSets, TLC

\* ------------------------------------------------------------------------
\* Bit operations of JavaScript on non-negative 31-bit operands
\* ------------------------------------------------------------------------
Pow2(n) == 2 ^ n

\* the array with the elements of f, held as a tuple
ArrayOf(f) == f \o <<>>

Shl(a, n) == a * Pow2(n)
Shr(a, n) == a \div Pow2(n)

Bit(a, i) == (a \div Pow2(i)) % 2

\* a & b on one 4-bit group
And4(a, b) ==
  Bit(a, 0) * Bit(b, 0) + 2 * Bit(a, 1) * Bit(b, 1) + 4 * Bit(a, 2) * Bit(b, 2)
    + 8 * Bit(a, 3) * Bit(b, 3)

\* AndTable[a + 1][b + 1] = a & b for a, b in 0..15
AndTable == ArrayOf([a \in 1..16 |-> ArrayOf([b \in 1..16 |-> And4(a - 1, b - 1)])])

Group4(a, g) == ((a \div Pow2(4 * g)) % 16) + 1

BitAnd(a, b) ==
  AndTable[Group4(a, 0)][Group4(b, 0)]
    + 16 * AndTable[Group4(a, 1)][Group4(b, 1)]
    + 256 * AndTable[Group4(a, 2)][Group4(b, 2)]
    + 4096 * AndTable[Group4(a, 3)][Group4(b, 3)]
    + 65536 * AndTable[Group4(a, 4)][Group4(b, 4)]
    + 1048576 * AndTable[Group4(a, 5)][Group4(b, 5)]
    + 16777216 * AndTable[Group4(a, 6)][Group4(b, 6)]
    + 268435456 * AndTable[Group4(a, 7)][Group4(b, 7)]

BitXor(a, b) == (a + b) - 2 * BitAnd(a, b)

BitOr(a, b) == (a + b) - BitAnd(a, b)

\* a for loop over seq[lo..hi] carrying acc, split in halves so that the
\* evaluation depth stays logarithmic
RECURSIVE FoldRange(_, _, _, _, _)
FoldRange(Step(_, _), seq, lo, hi, acc) ==
  IF lo > hi THEN acc
  ELSE IF lo = hi THEN Step(acc, seq[lo])
  ELSE LET mid == (lo + hi) \div 2
           left == FoldRange(Step, seq, lo, mid, acc)
       IN IF left = left THEN FoldRange(Step, seq, mid + 1, hi, left) ELSE left

Fold(Step(_, _), seq, acc) == FoldRange(Step, seq, 1, Len(seq), acc)

\* the value read past the end of an array
Undefined == -1

\* ------------------------------------------------------------------------
\* Array helpers
\* ------------------------------------------------------------------------
arrayNew(length) == ArrayOf([i \in 1..length |-> 0])

\* offset = 0 / length = 0 stand for the omitted arguments (offset || 0,
\* length || b.length); a write past the end grows the array.
arraySet(a, b, offset, length) ==
  LET o == offset
      l == IF length = 0 THEN Len(b) ELSE length
      n == IF o + l > Len(a) THEN o + l ELSE Len(a)
  IN ArrayOf([i \in 1..n |->
        IF i > o /\ i <= o + l
        THEN (IF i - o <= Len(b) THEN b[i - o] ELSE Undefined)
        ELSE (IF i <= Len(a) THEN a[i] ELSE Undefined)])

\* a.slice(begin, end) with 0-based begin (inclusive) and end (exclusive)
slice(a, begin, end) ==
  LET e == IF end > Len(a) THEN Len(a) ELSE end
  IN IF begin >= e THEN <<>> ELSE SubSeq(a, begin + 1, e)

arrayConcat(a, b) == a \o b

\* ------------------------------------------------------------------------
\* JavaScript numbers
\* ------------------------------------------------------------------------
NumLen == 9

\* digits left-padded with zeros to NumLen
Pad(digits) ==
  ArrayOf([i \in 1..NumLen |->
     IF i <= NumLen - Len(digits) THEN 0 ELSE digits[i - (NumLen - Len(digits))]])

RECURSIVE Digits(_, _)
Digits(n, k) == IF k = 0 THEN <<>> ELSE Append(Digits(n \div 256, k - 1), n % 256)

\* the number n, 0 <= n < 2^31
Num(n) == [t |-> "number", k |-> "int", neg |-> FALSE, mag |-> Digits(n, NumLen)]
\* the number with the given big-endian digits
BigNum(mag) == [t |-> "number", k |-> "int", neg |-> FALSE, mag |-> Pad(mag)]
NegNum(n) == [t |-> "number", k |-> "int", neg |-> TRUE, mag |-> Digits(n, NumLen)]
Fraction == [t |-> "number", k |-> "frac", neg |-> FALSE, mag |-> Digits(1, NumLen)]
NaN == [t |-> "number", k |-> "nan", neg |-> FALSE, mag |-> Digits(0, NumLen)]
NotANumber == [t |-> "string", k |-> "int", neg |-> FALSE, mag |-> Digits(42, NumLen)]

RECURSIVE MagLess(_, _)
MagLess(x, y) ==
  IF x = <<>> THEN FALSE
  ELSE IF Head(x) # Head(y) THEN Head(x) < Head(y)
  ELSE MagLess(Tail(x), Tail(y))

IsZeroMag(x) == \A i \in 1..Len(x) : x[i] = 0

\* a < b on integer numbers
NumLess(a, b) ==
  IF a.neg /\ ~IsZeroMag(a.mag)
  THEN IF b.neg /\ ~IsZeroMag(b.mag) THEN MagLess(b.mag, a.mag) ELSE TRUE
  ELSE IF b.neg /\ ~IsZeroMag(b.mag) THEN FALSE ELSE MagLess(a.mag, b.mag)

\* value of a small number
RECURSIVE MagVal(_)
MagVal(x) == IF x = <<>> THEN 0 ELSE MagVal(SubSeq(x, 1, Len(x) - 1)) * 256 + x[Len(x)]
NumVal(a) == MagVal(SubSeq(a.mag, NumLen - 2, NumLen))

\* 2^64: the value of the literal 18446744073709551615, which is not a
\* double and is read as the nearest one
TwoPow64 == BigNum([i \in 1..NumLen |-> IF i = NumLen - 8 THEN 1 ELSE 0])

Ok(v) == [raised |-> FALSE, err |-> "", val |-> v]
Throw(e) == [raised |-> TRUE, err |-> e, val |-> <<>>]
\* an Error raised by a method: val is the receiver's _bytes as the call left them
Raise(e, this) == [raised |-> TRUE, err |-> e, val |-> this]

validateInt(arg, min, max) ==
  IF arg.t # "number" THEN Throw("invalid type")
  ELSE IF arg.k # "int" THEN Throw("invalid integer")
  ELSE IF NumLess(arg, min) \/ NumLess(max, arg) THEN Throw("invalid value")
  ELSE Ok(arg)

\* every string argument of the model is a string, so the typeof test passes
validateStr(arg, len) ==
  IF Len(arg) # len THEN Throw("invalid length") ELSE Ok(arg)

\* ------------------------------------------------------------------------
\* Integer codecs
\* ------------------------------------------------------------------------
uint16ToBytes(value) == <<BitAnd(Shr(value, 8), 255), BitAnd(value, 255)>>

bytesToUint16(bytes) == BitOr(Shl(bytes[1], 8), bytes[2])

\* l is the low 32 bits of value; h = (value - l) / 2^32 keeps every higher
\* digit, and the 32-bit shifts of h drop all but its low four.
uint64ToBytes(value) ==
  LET l == SubSeq(value.mag, NumLen - 3, NumLen)
      h == SubSeq(value.mag, 1, NumLen - 4)
      n == Len(h)
  IN <<h[n - 3], h[n - 2], h[n - 1], h[n], l[1], l[2], l[3], l[4]>>

RECURSIVE BitLen(_)
BitLen(x) == IF x = 0 THEN 0 ELSE 1 + BitLen(x \div 2)

\* big-endian digits plus a small integer
RECURSIVE MagAdd(_, _)
MagAdd(mag, k) ==
  IF mag = <<>> THEN <<>>
  ELSE LET n == Len(mag)
           s == mag[n] + k
       IN Append(MagAdd(SubSeq(mag, 1, n - 1), s \div 256), s % 256)

\* h and l are exact 32-bit values; (h * 4294967296) + l is one double
\* addition, rounded to 53 significant bits, ties to even.
bytesToUint64(bytes) ==
  LET exact == SubSeq(bytes, 1, 4) \o SubSeq(bytes, 5, 8)
      n == IF bytes[1] > 0 THEN 56 + BitLen(bytes[1])
           ELSE IF bytes[2] > 0 THEN 48 + BitLen(bytes[2]) ELSE 0
      d == n - 53
  IN IF d <= 0 THEN BigNum(exact)
     ELSE LET low == bytes[7] * 256 + bytes[8]
              m == Pow2(d)
              rem == low % m
              odd == (low \div m) % 2 = 1
              down == low - rem
              up == rem > m \div 2 \/ (rem = m \div 2 /\ odd)
              base == [exact EXCEPT ![7] = down \div 256, ![8] = down % 256]
          IN BigNum(IF up THEN MagAdd(Pad(base), m) ELSE base)

\* ------------------------------------------------------------------------
\* Strings
\* ------------------------------------------------------------------------
toLowerCase(str) ==
  ArrayOf([i \in 1..Len(str) |->
     IF str[i] >= 65 /\ str[i] <= 90 THEN str[i] + 32 ELSE str[i]])

\* 0-based index of the code unit c in str, -1 when absent
indexOf(str, c) ==
  IF \E i \in 1..Len(str) : str[i] = c
  THEN (CHOOSE i \in 1..Len(str) : str[i] = c /\ \A j \in 1..(i - 1) : str[j] # c) - 1
  ELSE -1

lastIndexOf(str, c) ==
  IF \E i \in 1..Len(str) : str[i] = c
  THEN (CHOOSE i \in 1..Len(str) : str[i] = c /\ \A j \in (i + 1)..Len(str) : str[j] # c) - 1
  ELSE -1

\* 'genesis'
genesis == <<103, 101, 110, 101, 115, 105, 115>>
\* 'umi'
umi == <<117, 109, 105>>

\* ------------------------------------------------------------------------
\* Prefix <-> version
\* ------------------------------------------------------------------------
checkPrefixChars(chars) ==
  IF \E i \in 1..Len(chars) : chars[i] < 1 \/ chars[i] > 26
  THEN Throw("bech32: invalid prefix character")
  ELSE Ok(chars)

\* a versionToPrefix without the test of bit 15 and of the letters
versionToPrefixNoCheck(version) ==
  IF version < 0 \/ version > 65535 THEN Throw("invalid value")
  ELSE IF version = 0 THEN Ok(genesis)
  ELSE LET a == Shr(BitAnd(version, 31744), 10)
           b == Shr(BitAnd(version, 992), 5)
           c == BitAnd(version, 31)
       IN Ok(<<a + 96, b + 96, c + 96>>)

versionToPrefix(version) ==
  IF version < 0 \/ version > 65535 THEN Throw("invalid value")
  ELSE IF version = 0 THEN Ok(genesis)
  ELSE IF BitAnd(version, 32768) = 32768 THEN Throw("bech32: invalid version")
  ELSE LET a == Shr(BitAnd(version, 31744), 10)
           b == Shr(BitAnd(version, 992), 5)
           c == BitAnd(version, 31)
       IN IF checkPrefixChars(<<a, b, c>>).raised
          THEN checkPrefixChars(<<a, b, c>>)
          ELSE Ok(<<a + 96, b + 96, c + 96>>)

prefixToVersion(prefix) ==
  IF prefix = genesis THEN Ok(0)
  ELSE IF validateStr(prefix, 3).raised THEN validateStr(prefix, 3)
  ELSE LET a == prefix[1] - 96
           b == prefix[2] - 96
           c == prefix[3] - 96
       IN IF checkPrefixChars(<<a, b, c>>).raised
          THEN checkPrefixChars(<<a, b, c>>)
          ELSE Ok(Shl(a, 10) + Shl(b, 5) + c)

\* ------------------------------------------------------------------------
\* Bech32
\* ------------------------------------------------------------------------
\* 'qpzry9x8gf2tvdw0s3jn54khce6mua7l'
bech32Alphabet ==
  <<113, 112, 122, 114, 121, 57, 120, 56, 103, 102, 50, 116, 118, 100, 119, 48,
    115, 51, 106, 110, 53, 52, 107, 104, 99, 101, 54, 109, 117, 97, 55, 108>>

strToBytes(str) == ArrayOf([i \in 1..Len(str) |-> indexOf(bech32Alphabet, str[i])])

checkAlphabet(chars) ==
  IF \E i \in 1..Len(chars) : indexOf(bech32Alphabet, chars[i]) = -1
  THEN Throw("bech32: invalid character")
  ELSE Ok(chars)

prefixExpand(prefix) ==
  LET l == Len(prefix)
  IN ArrayOf([k \in 1..(2 * l + 1) |->
        IF k <= l THEN Shr(prefix[k], 5)
        ELSE IF k = l + 1 THEN 0
        ELSE BitAnd(prefix[k - l - 1], 31)])

gen == <<996825010, 642813549, 513874426, 1027748829, 705979059>>

\* the inner loop of polyMod: the xor of gen[i] over the set bits i of top
polyModGen(top) ==
  BitXor(BitXor(BitXor(IF BitAnd(Shr(top, 0), 1) = 1 THEN gen[1] ELSE 0,
                       IF BitAnd(Shr(top, 1), 1) = 1 THEN gen[2] ELSE 0),
                BitXor(IF BitAnd(Shr(top, 2), 1) = 1 THEN gen[3] ELSE 0,
                       IF BitAnd(Shr(top, 3), 1) = 1 THEN gen[4] ELSE 0)),
         IF BitAnd(Shr(top, 4), 1) = 1 THEN gen[5] ELSE 0)

\* chk stays below 2^30, so top ranges over 0..31
polyModGenTable == ArrayOf([top \in 1..32 |-> polyModGen(top - 1)])

\* (chk & 0x1ffffff) << 5 has its low five bits clear, so ^ value adds value
polyModStep(chk, v) ==
  BitXor(Shl(chk % 33554432, 5) + v, polyModGenTable[Shr(chk, 25) + 1])

polyMod(values) == Fold(polyModStep, values, 1)

createChecksum(prefix, data) ==
  LET bytes == strToBytes(data)
      pfx == prefixExpand(prefix)
      values == arraySet(arraySet(arrayNew(Len(pfx) + Len(bytes) + 6), pfx, 0, 0),
                         bytes, Len(pfx), 0)
      poly == BitXor(polyMod(values), 1)
  IN ArrayOf([i \in 1..6 |-> bech32Alphabet[BitAnd(Shr(poly, 5 * (5 - (i - 1))), 31) + 1]])

verifyChecksum(prefix, data) ==
  LET pfx == prefixExpand(prefix)
      bytes == strToBytes(data)
      values == arraySet(arraySet(arrayNew(Len(pfx) + Len(bytes)), pfx, 0, 0),
                         bytes, Len(pfx), 0)
  IN IF polyMod(values) # 1 THEN Throw("bech32: invalid checksum") ELSE Ok(data)

\* value is kept to its low 16 bits: the source reads at most the low 12
RECURSIVE convert8to5While(_)
convert8to5While(st) ==
  IF st.bits >= 5
  THEN convert8to5While([value |-> st.value, bits |-> st.bits - 5,
         result |-> Append(st.result,
                      bech32Alphabet[BitAnd(Shr(st.value, st.bits - 5), 31) + 1])])
  ELSE st

convert8to5Step(st, byte) ==
  convert8to5While([value |-> BitOr(Shl(st.value, 8) % 65536, byte),
                    bits |-> st.bits + 8, result |-> st.result])

\* a convert8to5 that drops the bits left over after the last whole group
convert8to5DropsTail(data) ==
  Fold(convert8to5Step, data, [value |-> 0, bits |-> 0, result |-> <<>>]).result

convert8to5(data) ==
  LET st == Fold(convert8to5Step, data, [value |-> 0, bits |-> 0, result |-> <<>>])
  IN IF st.bits > 0
     THEN Append(st.result, bech32Alphabet[BitAnd(Shl(st.value, 5 - st.bits), 31) + 1])
     ELSE st.result

RECURSIVE convert5to8While(_)
convert5to8While(st) ==
  IF st.bits >= 8
  THEN convert5to8While([value |-> st.value, bits |-> st.bits - 8,
         result |-> Append(st.result, BitAnd(Shr(st.value, st.bits - 8), 255))])
  ELSE st

convert5to8Step(st, byte) ==
  convert5to8While([value |-> BitOr(Shl(st.value, 5) % 65536, byte),
                    bits |-> st.bits + 5, result |-> st.result])

convert5to8(data) ==
  LET st == Fold(convert5to8Step, strToBytes(data),
                 [value |-> 0, bits |-> 0, result |-> <<>>])
  IN IF st.bits >= 5 \/ BitAnd(Shl(st.value, 8 - st.bits), 255) # 0
     THEN Throw("bech32: invalid data")
     ELSE Ok(st.result)

bech32Encode(bytes) ==
  LET p == versionToPrefix(Shl(bytes[1], 8) + bytes[2])
  IN IF p.raised THEN p
     ELSE LET prefix == p.val
              data == convert8to5(slice(bytes, 2, Len(bytes)))
              checksum == createChecksum(prefix, data)
          IN Ok(prefix \o <<49>> \o data \o checksum)

bech32Decode(bech32) ==
  IF Len(bech32) # 62 /\ Len(bech32) # 66 THEN Throw("bech32: invalid length")
  ELSE LET str == toLowerCase(bech32)
           sepPos == lastIndexOf(str, 49)
       IN IF sepPos = -1 THEN Throw("bech32: missing separator")
          ELSE LET pfx == slice(str, 0, sepPos)
                   ver == prefixToVersion(pfx)
                   data == slice(str, sepPos + 1, Len(str))
               IN IF ver.raised THEN ver
                  ELSE IF checkAlphabet(data).raised THEN checkAlphabet(data)
                  ELSE IF verifyChecksum(pfx, data).raised THEN verifyChecksum(pfx, data)
                  ELSE LET payload == convert5to8(slice(data, 0, Len(data) - 6))
                       IN IF payload.raised THEN payload
                          ELSE Ok(arrayConcat(uint16ToBytes(ver.val), payload.val))

\* ------------------------------------------------------------------------
\* Base64
\* ------------------------------------------------------------------------
\* 'A'..'Z', 'a'..'z', '0'..'9', '+', '/'
base64Alphabet ==
  ArrayOf([i \in 1..64 |->
     IF i <= 26 THEN 64 + i ELSE IF i <= 52 THEN 70 + i
     ELSE IF i <= 62 THEN i - 5 ELSE IF i = 63 THEN 43 ELSE 47])

\* str.replace(c, by) for a one-character pattern: the first occurrence only
replace(str, c, by) ==
  LET at == indexOf(str, c)
  IN IF at = -1 THEN str
     ELSE SubSeq(str, 1, at) \o by \o SubSeq(str, at + 2, Len(str))

checkBase64Alphabet(chars) ==
  IF Len(chars) % 4 # 0 THEN Throw("base64: invalid length")
  ELSE LET charz == replace(replace(chars, 61, <<>>), 61, <<>>)
       IN IF \E i \in 1..Len(charz) : indexOf(base64Alphabet, charz[i]) = -1
          THEN Throw("base64: invalid character")
          ELSE Ok((Len(chars) \div 4) * 3 - (Len(chars) - Len(charz)))

\* every character of b64 is in the alphabet once checkBase64Alphabet has
\* returned, so the four indices are 0..63 and | adds the shifted groups
base64Decode(base64) ==
  LET len == checkBase64Alphabet(base64)
      b64 == replace(replace(base64, 61, <<65>>), 61, <<65>>)
      x(i) == Shl(indexOf(base64Alphabet, b64[i + 1]), 18)
                + Shl(indexOf(base64Alphabet, b64[i + 2]), 12)
                + Shl(indexOf(base64Alphabet, b64[i + 3]), 6)
                + indexOf(base64Alphabet, b64[i + 4])
      bytes == ArrayOf([k \in 1..(3 * (Len(base64) \div 4)) |->
                 LET i == 4 * ((k - 1) \div 3)
                 IN BitAnd(Shr(x(i), 8 * (2 - ((k - 1) % 3))), 255)])
  IN IF len.raised THEN len ELSE Ok(slice(bytes, 0, len.val))

\* a base64Encode that leaves the characters of the padding zeros in place
base64EncodeKeepsZeros(bytes) ==
  LET n == (Len(bytes) + 2) \div 3
      b == bytes \o ArrayOf([i \in 1..(3 * n - Len(bytes)) |-> 0])
      x(i) == BitOr(BitOr(Shl(b[i + 1], 16), Shl(b[i + 2], 8)), b[i + 3])
  IN ArrayOf([k \in 1..(4 * n) |->
       base64Alphabet[BitAnd(Shr(x(3 * ((k - 1) \div 4)), 6 * (3 - ((k - 1) % 4))), 63) + 1]])

\* b is bytes filled with zeros to a multiple of 3, pad one '=' per zero
base64Encode(bytes) ==
  LET n == (Len(bytes) + 2) \div 3
      pad == ArrayOf([i \in 1..(3 * n - Len(bytes)) |-> 61])
      b == bytes \o ArrayOf([i \in 1..(3 * n - Len(bytes)) |-> 0])
      x(i) == BitOr(BitOr(Shl(b[i + 1], 16), Shl(b[i + 2], 8)), b[i + 3])
      str == ArrayOf([k \in 1..(4 * n) |->
               base64Alphabet[BitAnd(Shr(x(3 * ((k - 1) \div 4)), 6 * (3 - ((k - 1) % 4))), 63) + 1]])
  IN SubSeq(str, 1, Len(str) - Len(pad)) \o pad

\* ------------------------------------------------------------------------
\* Base16
\* ------------------------------------------------------------------------
hexAlphabet == <<48, 49, 50, 51, 52, 53, 54, 55, 56, 57, 97, 98, 99, 100, 101, 102>>

checkHexAlphabet(chars) ==
  IF Len(chars) % 2 # 0 THEN Throw("hex: invalid length")
  ELSE IF \E i \in 1..Len(chars) : indexOf(hexAlphabet, chars[i]) = -1
  THEN Throw("hex: invalid character")
  ELSE Ok(chars)

hexDecode(hex) ==
  LET h == toLowerCase(hex)
      c == checkHexAlphabet(h)
  IN IF c.raised THEN c
     ELSE Ok(ArrayOf([k \in 1..(Len(h) \div 2) |->
            BitOr(Shl(indexOf(hexAlphabet, h[2 * k - 1]), 4),
                  indexOf(hexAlphabet, h[2 * k]))]))

hexEncode(bytes) ==
  ArrayOf([k \in 1..(2 * Len(bytes)) |->
    IF k % 2 = 1 THEN hexAlphabet[BitAnd(Shr(bytes[(k + 1) \div 2], 4), 15) + 1]
    ELSE hexAlphabet[BitAnd(bytes[k \div 2], 15) + 1]])

\* ------------------------------------------------------------------------
\* UTF-8
\* ------------------------------------------------------------------------
Indices(seq) == ArrayOf([i \in 1..Len(seq) |-> i])

\* code unit at 0-based position i; NaN past the end behaves as 0 under &
charCodeAt(text, i) == IF i < Len(text) THEN text[i + 1] ELSE 0

encodeUtf8Mb4(b, code) ==
  b \o <<BitOr(240, Shr(code, 18)), BitOr(128, BitAnd(Shr(code, 12), 63)),
         BitOr(128, BitAnd(Shr(code, 6), 63)), BitOr(128, BitAnd(code, 63))>>

\* st.i is the loop index of the source, st.b the bytes written so far
textEncodeStep(text, st, k) ==
  IF k - 1 # st.i THEN st
  ELSE LET code == charCodeAt(text, st.i)
       IN IF code < 128 THEN [i |-> st.i + 1, b |-> Append(st.b, code)]
          ELSE IF code < 2048
          THEN [i |-> st.i + 1,
                b |-> st.b \o <<BitOr(192, Shr(code, 6)), BitOr(128, BitAnd(code, 63))>>]
          ELSE IF code < 55296 \/ code >= 57344
          THEN [i |-> st.i + 1,
                b |-> st.b \o <<BitOr(224, Shr(code, 12)),
                                BitOr(128, BitAnd(Shr(code, 6), 63)),
                                BitOr(128, BitAnd(code, 63))>>]
          ELSE [i |-> st.i + 2,
                b |-> encodeUtf8Mb4(st.b, 65536 + Shl(BitAnd(code, 1023), 10)
                                            + BitAnd(charCodeAt(text, st.i + 1), 1023))]

textEncode(text) ==
  LET Step(st, k) == textEncodeStep(text, st, k)
  IN Fold(Step, Indices(text), [i |-> 0, b |-> <<>>]).b

\* bytes[i] past the end is undefined and counts as 0 under &
byteAt(bytes, i) == IF i < Len(bytes) THEN bytes[i + 1] ELSE 0

textDecodeStep(bytes, st, k) ==
  IF k - 1 # st.i THEN st
  ELSE LET b0 == bytes[st.i + 1]
       IN IF b0 < 128 THEN [i |-> st.i + 1, str |-> Append(st.str, b0)]
          ELSE IF b0 > 191 /\ b0 < 224
          THEN [i |-> st.i + 2,
                str |-> Append(st.str, BitOr(Shl(BitAnd(b0, 31), 6),
                                             BitAnd(byteAt(bytes, st.i + 1), 63)))]
          ELSE IF b0 > 223 /\ b0 < 240
          THEN [i |-> st.i + 3,
                str |-> Append(st.str,
                          BitOr(BitOr(Shl(BitAnd(b0, 15), 12),
                                      Shl(BitAnd(byteAt(bytes, st.i + 1), 63), 6)),
                                BitAnd(byteAt(bytes, st.i + 2), 63)))]
          ELSE LET code == BitOr(BitOr(Shl(BitAnd(b0, 7), 18),
                                       Shl(BitAnd(byteAt(bytes, st.i + 1), 63), 12)),
                                 BitOr(Shl(BitAnd(byteAt(bytes, st.i + 2), 63), 6),
                                       BitAnd(byteAt(bytes, st.i + 3), 63))) - 65536
               IN [i |-> st.i + 4,
                   str |-> st.str \o <<BitOr((code \div 1024) % 65536, 55296) % 65536,
                                       BitOr(code % 1024, 56320)>>]

textDecode(bytes) ==
  LET Step(st, k) == textDecodeStep(bytes, st, k)
  IN Fold(Step, Indices(bytes), [i |-> 0, str |-> <<>>]).str

\* ------------------------------------------------------------------------
\* Hash preprocessing (padding and split into words, as in the source)
\* ------------------------------------------------------------------------
\* (b0 << 24) + (b1 << 16) + (b2 << 8) + b3: the first shift is a signed
\* 32-bit value, the sum is not wrapped
word32(b0, b1, b2, b3) ==
  (IF b0 >= 128 THEN b0 - 256 ELSE b0) * 16777216 + b1 * 65536 + b2 * 256 + b3

\* the array of length l that holds the message, zeros, 0x80 at
\* message.length and the low 16 bits of the bit length in its last two bytes
padded(message, l) ==
  LET len == Len(message)
      bits == len * 8
  IN ArrayOf([i \in 1..l |->
        IF i = l THEN BitAnd(bits, 255)
        ELSE IF i = l - 1 THEN BitAnd(Shr(bits, 8), 255)
        ELSE IF i = len + 1 THEN 128
        ELSE IF i <= len THEN message[i] ELSE 0])

sha256PreProcess(message) ==
  LET len == Len(message)
      bytez == padded(message, len + 8 + (64 - ((len + 8) % 64)))
  IN ArrayOf([c \in 1..(Len(bytez) \div 64) |->
        ArrayOf([j \in 1..16 |->
          LET k == 64 * (c - 1) + 4 * (j - 1)
          IN word32(bytez[k + 1], bytez[k + 2], bytez[k + 3], bytez[k + 4])])])

sha512PreProcess(message) ==
  LET len == Len(message)
      bytes == padded(message, len + 16 + (128 - ((len + 16) % 128)))
  IN ArrayOf([c \in 1..(Len(bytes) \div 128) |->
        ArrayOf([j \in 1..16 |->
          LET k == 128 * (c - 1) + 8 * (j - 1)
          IN <<word32(bytes[k + 1], bytes[k + 2], bytes[k + 3], bytes[k + 4]),
               word32(bytes[k + 5], bytes[k + 6], bytes[k + 7], bytes[k + 8])>>])])

\* ------------------------------------------------------------------------
\* Hashes (stand-ins: same interface, every input byte mixed in)
\* ------------------------------------------------------------------------
sha256Step(acc, byte) == (acc * 33 + byte + 1) % 65521
sha256(message) ==
  LET h == Fold(sha256Step, message, Len(message) + 11)
  IN IF h = h THEN ArrayOf([i \in 1..32 |-> ((h + 3 * i) * (2 * i + 1)) % 256]) ELSE <<>>

sha512Step(acc, byte) == (acc * 31 + byte + 1) % 65521
sha512(message) ==
  LET h == Fold(sha512Step, message, Len(message) + 7)
  IN IF h = h THEN ArrayOf([i \in 1..64 |-> ((h + 5 * i) * (2 * i + 3)) % 256]) ELSE <<>>

\* ------------------------------------------------------------------------
\* Group arithmetic (stand-in: the cyclic group Z_L with generator B)
\* ------------------------------------------------------------------------
\* group order
L == 32749
\* base point
B == 9

Reverse(seq) == ArrayOf([i \in 1..Len(seq) |-> seq[Len(seq) + 1 - i]])

\* little-endian bytes of n < 65536
leBytes(n, len) ==
  ArrayOf([i \in 1..len |-> IF i = 1 THEN n % 256 ELSE IF i = 2 THEN n \div 256 ELSE 0])

\* the little-endian integer x modulo L
modLStep(acc, byte) == (acc * 256 + byte) % L
leValue(x) == Fold(modLStep, Reverse(x), 0)

modL(x) == leBytes(leValue(x), 32)
reduce(r) == leBytes(leValue(r), 64)

\* s * q for a little-endian scalar s and a point q
scalarmult(q, s) == (leValue(s) * q) % L
scalarbase(s) == scalarmult(B, s)
add(p, q) == (p + q) % L

\* 32-byte encoding of a point; the neutral element is 01 00 .. 00
pack(p) == leBytes(p + 1, 32)

\* the 255-bit integer in p (bit 255 cleared) must encode a point; the
\* result is the negated point
unpackneg(p) ==
  LET y == p[1] + 256 * p[2]
  IN IF (\A i \in 3..31 : p[i] = 0) /\ p[32] % 128 = 0 /\ y >= 1 /\ y <= L
     THEN [ok |-> TRUE, pt |-> (L - (y - 1)) % L]
     ELSE [ok |-> FALSE, pt |-> 0]

cryptoVerify32(x, y) == \A i \in 1..32 : x[i] = y[i]

\* d[0] &= 248, d[31] &= 127, d[31] |= 64
clamp(d) ==
  [d EXCEPT ![1] = BitAnd(d[1], 248), ![32] = BitOr(BitAnd(d[32], 127), 64)]

secretKeyFromSeed(seed) ==
  LET d == clamp(sha512(seed))
      pk == pack(scalarbase(slice(d, 0, 32)))
  IN arrayConcat(seed, pk)

\* the public half that enters the challenge hash is bytes 32..63 of the
\* key, the scalar comes from bytes 0..31
sign(message, secretKey) ==
  LET d == clamp(sha512(slice(secretKey, 0, 32)))
      r == reduce(sha512(slice(d, 32, 64) \o message))
      R == pack(scalarbase(r))
      h == reduce(sha512(R \o slice(secretKey, 32, 64) \o message))
      S == leBytes((leValue(r) + leValue(h) * leValue(slice(d, 0, 32))) % L, 32)
  IN arrayConcat(R, S)

verify(signature, message, pubKey) ==
  LET q == unpackneg(pubKey)
  IN IF ~q.ok THEN FALSE
     ELSE LET sm == signature \o message
              h == reduce(sha512(slice(sm, 0, 32) \o pubKey \o message))
              p == add(scalarmult(q.pt, h), scalarbase(slice(sm, 32, 64)))
          IN cryptoVerify32(sm, pack(p))

\* ------------------------------------------------------------------------
\* PublicKey, SecretKey (an object is its class and its _bytes)
\* ------------------------------------------------------------------------
Obj(cls, bytes) == [cls |-> cls, bytes |-> bytes]

PublicKey_new(bytes) ==
  IF Len(bytes) # 32 THEN Throw("invalid length")
  ELSE Ok(Obj("PublicKey", arraySet(<<>>, bytes, 0, 0)))

PublicKey_getBytes(this) == slice(this.bytes, 0, Len(this.bytes))

PublicKey_verifySignatureStrict(this, signature, message) ==
  IF Len(signature) # 64 THEN Throw("invalid length")
  ELSE IF ~unpackneg(this.bytes).ok THEN Throw("invalid public key")
  ELSE Ok(verify(signature, message, this.bytes))

PublicKey_verifySignature(this, signature, message) ==
  IF Len(signature) # 64 THEN Throw("invalid length")
  ELSE Ok(verify(signature, message, this.bytes))

SecretKey_new(bytes) ==
  IF Len(bytes) # 64 THEN Throw("invalid length")
  ELSE Ok(Obj("SecretKey", arraySet(<<>>, bytes, 0, 0)))

\* a fromSeed that hashes every seed
SecretKey_fromSeedHashAlways(seed) ==
  SecretKey_new(secretKeyFromSeed(sha256(seed)))

SecretKey_fromSeed(seed) ==
  LET entropy == IF Len(seed) # 32 THEN sha256(seed) ELSE seed
  IN SecretKey_new(secretKeyFromSeed(entropy))

SecretKey_getBytes(this) == slice(this.bytes, 0, Len(this.bytes))

SecretKey_getPublicKey(this) == PublicKey_new(slice(this.bytes, 32, 64))

SecretKey_sign(this, message) == sign(message, this.bytes)

\* key.getPublicKey() of a PublicKey or a SecretKey
getPublicKey(key) ==
  IF key.cls = "PublicKey" THEN Ok(key) ELSE SecretKey_getPublicKey(key)

\* ------------------------------------------------------------------------
\* Address (the object is its _bytes)
\* ------------------------------------------------------------------------
Address_setPrefix(this, prefix) ==
  LET v == prefixToVersion(prefix)
  IN IF v.raised THEN Raise(v.err, this) ELSE Ok(arraySet(this, uint16ToBytes(v.val), 0, 0))

Address_new == Address_setPrefix(arrayNew(34), umi).val

Address_fromBech32(bech32) ==
  LET d == bech32Decode(bech32)
  IN IF d.raised THEN d ELSE Ok(arraySet(Address_new, d.val, 0, 0))

Address_fromBytes(bytes) ==
  IF Len(bytes) # 34 THEN Throw("length must be 34 bytes")
  ELSE Ok(arraySet(Address_new, bytes, 0, 0))

Address_getBech32(this) == bech32Encode(this)

Address_getBytes(this) == slice(this, 0, Len(this))

Address_getPrefix(this) == versionToPrefix(bytesToUint16(slice(this, 0, 2)))

Address_getPublicKey(this) == PublicKey_new(slice(this, 2, Len(this)))

\* publicKey.getBytes is looked up on the argument before anything is written
Address_setPublicKey(this, publicKey) ==
  IF publicKey.cls \notin {"PublicKey", "SecretKey"}
  THEN Raise("publicKey.getBytes is not a function", this)
  ELSE Ok(arraySet(this, PublicKey_getBytes(publicKey), 2, 0))

Address_fromKey(key) == Address_setPublicKey(Address_new, getPublicKey(key).val)

\* ------------------------------------------------------------------------
\* Transaction (the object is its _bytes).  A setter returns the receiver
\* as the call leaves it, whether it returned or raised.
\* ------------------------------------------------------------------------
Transaction_getVersion(this) == this[1]

checkVersionUpTo(this, versions) ==
  IF \E i \in 1..Len(versions) : Transaction_getVersion(this) <= versions[i]
  THEN Ok(this)
  ELSE Throw("invalid version")

checkVersion(this, versions) ==
  IF \E i \in 1..Len(versions) : versions[i] = Transaction_getVersion(this)
  THEN Ok(this)
  ELSE Throw("invalid version")

Transaction_setVersion(this, version) ==
  LET v == validateInt(version, Num(0), Num(7))
  IN IF v.raised THEN Raise(v.err, this)
     ELSE Ok([this EXCEPT ![1] = NumVal(version)])

Basic == 1
CreateStructure == 2

Transaction_new == Transaction_setVersion(arrayNew(150), Num(Basic)).val

\* a fromBytes that keeps the version byte the constructor wrote
Transaction_fromBytesKeepsVersion(bytes) ==
  IF Len(bytes) # 150 THEN Throw("invalid length")
  ELSE Ok(arraySet(Transaction_new, slice(bytes, 1, 150), 1, 0))

Transaction_fromBytes(bytes) ==
  IF Len(bytes) # 150 THEN Throw("invalid length")
  ELSE Ok(arraySet(Transaction_new, bytes, 0, 0))

Transaction_getBytes(this) == slice(this, 0, Len(this))

Transaction_getHash(this) == sha256(this)

Transaction_getSender(this) == Address_fromBytes(slice(this, 1, 35))

Transaction_setSender(this, address) ==
  Ok(arraySet(this, Address_getBytes(address), 1, 34))

Transaction_getRecipient(this) ==
  IF checkVersion(this, <<0, 1, 4, 5, 6, 7>>).raised THEN Throw("invalid version")
  ELSE Address_fromBytes(slice(this, 35, 69))

Transaction_setRecipient(this, address) ==
  IF checkVersion(this, <<0, 1, 4, 5, 6, 7>>).raised THEN Raise("invalid version", this)
  ELSE Ok(arraySet(this, Address_getBytes(address), 35, 0))

Transaction_getValue(this) ==
  IF checkVersion(this, <<0, 1>>).raised THEN Throw("invalid version")
  ELSE Ok(bytesToUint64(slice(this, 69, 77)))

Transaction_setValue(this, value) ==
  LET v == validateInt(value, Num(1), TwoPow64)
  IN IF checkVersion(this, <<0, 1>>).raised THEN Raise("invalid version", this)
     ELSE IF v.raised THEN Raise(v.err, this)
     ELSE Ok(arraySet(this, uint64ToBytes(value), 69, 0))

Transaction_getNonce(this) == Ok(bytesToUint64(slice(this, 77, 85)))

Transaction_setNonce(this, nonce) ==
  LET v == validateInt(nonce, Num(0), TwoPow64)
  IN IF v.raised THEN Raise(v.err, this)
     ELSE Ok(arraySet(this, uint64ToBytes(nonce), 77, 0))

Transaction_getSignature(this) == slice(this, 85, 149)

\* a setSignature that writes one byte further on, over bytes 86..149
Transaction_setSignatureShifted(this, signature) ==
  IF Len(signature) # 64 THEN Raise("invalid length", this)
  ELSE Ok(arraySet(this, signature, 86, 0))

Transaction_setSignature(this, signature) ==
  IF Len(signature) # 64 THEN Raise("invalid length", this)
  ELSE Ok(arraySet(this, signature, 85, 0))

\* this.setNonce(time) runs first; its receiver is then read for the
\* message, secretKey.sign is looked up and called, and setSignature stores
\* the result
Transaction_signStaleMessage(this, secretKey, time) ==
  LET stamped == Transaction_setNonce(this, time)
  IN IF stamped.raised THEN stamped
     ELSE IF secretKey.cls # "SecretKey"
     THEN Raise("secretKey.sign is not a function", stamped.val)
     ELSE Transaction_setSignature(stamped.val,
            SecretKey_sign(secretKey, slice(this, 0, 85)))

\* a sign that stores the signature and leaves the nonce field alone
Transaction_signKeepsNonce(this, secretKey, time) ==
  LET stamped == Transaction_setNonce(this, time)
  IN IF stamped.raised THEN stamped
     ELSE IF secretKey.cls # "SecretKey"
     THEN Raise("secretKey.sign is not a function", this)
     ELSE Transaction_setSignature(this, SecretKey_sign(secretKey, slice(this, 0, 85)))

Transaction_sign(this, secretKey, time) ==
  LET stamped == Transaction_setNonce(this, time)
  IN IF stamped.raised THEN stamped
     ELSE IF secretKey.cls # "SecretKey"
     THEN Raise("secretKey.sign is not a function", stamped.val)
     ELSE Transaction_setSignature(stamped.val,
            SecretKey_sign(secretKey, slice(stamped.val, 0, 85)))

Transaction_getPrefix(this) ==
  IF checkVersion(this, <<2, 3>>).raised THEN Throw("invalid version")
  ELSE versionToPrefix(bytesToUint16(slice(this, 35, 37)))

Transaction_setPrefix(this, prefix) ==
  LET v == prefixToVersion(prefix)
  IN IF checkVersion(this, <<2, 3>>).raised THEN Raise("invalid version", this)
     ELSE IF v.raised THEN Raise(v.err, this)
     ELSE Ok(arraySet(this, uint16ToBytes(v.val), 35, 0))

Transaction_getNameAnyLength(this) ==
  IF checkVersion(this, <<2, 3>>).raised THEN Throw("invalid version")
  ELSE Ok(textDecode(slice(this, 42, 42 + this[42])))

Transaction_getName(this) ==
  IF checkVersion(this, <<2, 3>>).raised THEN Throw("invalid version")
  ELSE IF this[42] > 35 THEN Throw("invalid length")
  ELSE Ok(textDecode(slice(this, 42, 42 + this[42])))

\* a setName that writes the name without clearing the field first
Transaction_setNameNoClear(this, name) ==
  LET bytes == textEncode(name)
  IN IF checkVersion(this, <<2, 3>>).raised THEN Raise("invalid version", this)
     ELSE IF Len(bytes) > 35 THEN Raise("name is too long", this)
     ELSE Ok([arraySet(this, bytes, 42, 0) EXCEPT ![42] = Len(bytes)])

Transaction_setName(this, name) ==
  LET bytes == textEncode(name)
  IN IF checkVersion(this, <<2, 3>>).raised THEN Raise("invalid version", this)
     ELSE IF Len(bytes) > 35 THEN Raise("name is too long", this)
     ELSE Ok([arraySet(arraySet(this, arrayNew(36), 41, 0), bytes, 42, 0)
                EXCEPT ![42] = Len(bytes)])

Transaction_getProfitPercent(this) ==
  IF checkVersion(this, <<2, 3>>).raised THEN Throw("invalid version")
  ELSE Ok(bytesToUint16(slice(this, 37, 39)))

Transaction_setProfitPercent(this, percent) ==
  LET v == validateInt(percent, Num(100), Num(500))
  IN IF checkVersion(this, <<2, 3>>).raised THEN Raise("invalid version", this)
     ELSE IF v.raised THEN Raise(v.err, this)
     ELSE Ok(arraySet(this, uint16ToBytes(NumVal(percent)), 37, 0))

Transaction_getFeePercent(this) ==
  IF checkVersion(this, <<2, 3>>).raised THEN Throw("invalid version")
  ELSE Ok(bytesToUint16(slice(this, 39, 41)))

Transaction_setFeePercent(this, percent) ==
  LET v == validateInt(percent, Num(0), Num(2000))
  IN IF checkVersion(this, <<2, 3>>).raised THEN Raise("invalid version", this)
     ELSE IF v.raised THEN Raise(v.err, this)
     ELSE Ok(arraySet(this, uint16ToBytes(NumVal(percent)), 39, 0))

Transaction_verify(this) ==
  LET sender == Transaction_getSender(this)
      pubKey == Address_getPublicKey(sender.val)
  IN IF sender.raised THEN sender
     ELSE IF pubKey.raised THEN pubKey
     ELSE PublicKey_verifySignature(pubKey.val, Transaction_getSignature(this),
                                    slice(this, 0, 85))

\* ------------------------------------------------------------------------
\* Inputs
\* ------------------------------------------------------------------------
\* bound on the number of calls made on one Transaction
MaxOps == 2

Seed32 == [i \in 1..32 |-> i]
SeedShort == <<1, 2, 3>>
Seed33 == [i \in 1..33 |-> 2 * i]
\* a 32-byte seed that is the SHA-256 of a shorter one
SeedHashed == sha256(SeedShort)
Seeds == {Seed32, SeedShort, <<>>, Seed33, SeedHashed}

K1 == SecretKey_fromSeed(Seed32).val
K2 == SecretKey_fromSeed(SeedShort).val
\* keys made by SecretKey.fromSeed
SeedKeys == {SecretKey_fromSeed(seed).val : seed \in Seeds}
\* 64 bytes that are a seed followed by another key's public half
MixedKeyBytes == slice(K1.bytes, 0, 32) \o slice(K2.bytes, 32, 64)
KMixed == SecretKey_new(MixedKeyBytes).val
PK1 == getPublicKey(K1).val
PK2 == getPublicKey(K2).val
\* 32 bytes that encode no point
PKGarbage == PublicKey_new([i \in 1..32 |-> IF i = 5 THEN 200 ELSE i]).val

A1 == Address_fromKey(K1).val
A2Genesis == Address_setPrefix(Address_fromKey(K2).val, genesis).val
\* version bytes with bit 15 set
BadVersionBytes == <<128, 0>> \o PKGarbage.bytes
ABad == Address_fromBytes(BadVersionBytes).val

\* prefix + '1' + data + checksum for a payload of any length
MakeBech32(prefix, payload) ==
  prefix \o <<49>> \o convert8to5(payload) \o createChecksum(prefix, convert8to5(payload))

\* 66 characters with a 3-letter prefix (35 payload bytes)
Long66 == MakeBech32(umi, [i \in 1..35 |-> (7 * i) % 256])
\* 62 characters with the prefix 'genesis' (30 payload bytes)
Short62 == MakeBech32(genesis, [i \in 1..30 |-> (5 * i) % 256])
A37 == Address_fromBech32(Long66).val
\* an address of 66 bytes: setPublicKey given a SecretKey copies its 64 bytes
A66 == Address_setPublicKey(Address_new, K1).val

\* clock readings: 1600000000000 ms, and a clock set before 1970
T1 == BigNum(<<1, 116, 135, 110, 128, 0>>)
TNeg == NegNum(1)

\* the largest double below 2^64, and the next one above 2^64
MaxDoubleBelow == BigNum(<<255, 255, 255, 255, 255, 255, 248, 0>>)
DoubleAbove == BigNum(<<1, 0, 0, 0, 0, 0, 0, 16, 0>>)

VersionArgs == {Num(v) : v \in 0..8} \cup {NegNum(1), Fraction}
ProfitArgs == {Num(99), Num(100), Num(500), Num(501), NaN}
FeeArgs == {NegNum(1), Num(0), Num(2000), Num(2001), NotANumber}
ValueArgs == {Num(0), Num(1), MaxDoubleBelow, TwoPow64, DoubleAbove, Fraction}
NonceArgs == {NegNum(1), Num(0), Num(42), TwoPow64, DoubleAbove}
SenderArgs == {A1, A2Genesis, ABad}
RecipientArgs == {A1, ABad, A37, A66}
SignatureArgs == {arrayNew(64), arrayNew(63)}
\* the signature R, S + L made from R, S: the group order added to the
\* scalar half, which is the same scalar modulo L
SignaturePlusL(signature) ==
  LET v == signature[33] + 256 * signature[34]
  IN IF v + L < 65536
     THEN [signature EXCEPT ![33] = (v + L) % 256, ![34] = (v + L) \div 256]
     ELSE signature
SignArgs == {<<K1, T1>>, <<K2, T1>>, <<KMixed, T1>>, <<PK1, T1>>, <<K1, TNeg>>}
\* 'aaa', 'genesis', 'ab', 'a1z'
PrefixArgs == {<<97, 97, 97>>, genesis, <<97, 98>>, <<97, 49, 122>>}
\* '', 'My', 'e-acute euro emoji', 36 times 'a', 35 times 'a', 12 euro signs
\* (36 bytes), and a high surrogate alone
NameArgs ==
  {<<>>, <<77, 121>>, <<233, 8364, 55357, 56898>>, [i \in 1..36 |-> 97],
   [i \in 1..35 |-> 97], [i \in 1..12 |-> 8364], <<55357>>}

\* a well-formed unsigned CreateStructure record with sender A1
StructureBytes ==
  Transaction_setName(
    Transaction_setProfitPercent(
      Transaction_setPrefix(
        Transaction_setSender(
          Transaction_setVersion(Transaction_new, Num(CreateStructure)).val, A1).val,
        <<97, 97, 97>>).val,
      Num(100)).val,
    <<77, 121>>).val
\* version 9, and a version-3 record whose prefix and name length are garbage
Version9Bytes == [arrayNew(150) EXCEPT ![1] = 9, ![150] = 1]
GarbageBytes == [arrayNew(150) EXCEPT ![1] = 3, ![36] = 255, ![37] = 255, ![42] = 200]
\* a version-3 record whose name is the three bytes 80 E2 82: a continuation
\* byte in lead position, then a three-byte sequence cut off after two
BadUtf8Bytes ==
  [arrayNew(150) EXCEPT ![1] = 3, ![42] = 3, ![43] = 128, ![44] = 226, ![45] = 130]
FromBytesArgs ==
  {arrayNew(150), StructureBytes, Version9Bytes, GarbageBytes, BadUtf8Bytes}

\* ------------------------------------------------------------------------
\* State
\* ------------------------------------------------------------------------
VARIABLES
  tx,    \* Transaction._bytes of the transaction in hand
  adr,   \* Address._bytes of the address in hand
  sk,    \* the SecretKey in hand
  sig,   \* the last message signed with sk and its signature
  res,   \* the last call: operation, arguments, outcome
  calls, \* number of calls made on tx
  heap   \* the arrays as objects with identity, where aliasing is at issue

vars == <<tx, adr, sk, sig, res, calls, heap>>

\* the arrays of the heap, the _bytes reference of each entity, and the
\* references the caller holds; 0 is no reference
NoRef == 0
NoHeap == [mem |-> <<>>, obj |-> [pk |-> NoRef, sk |-> NoRef, adr |-> NoRef, tx |-> NoRef],
           held |-> {}]

NoKey == Obj("none", <<>>)
NoSig == [m |-> <<>>, s |-> <<>>, k |-> NoKey]

\* the record of a call: r is its outcome, ver the version byte of tx when
\* it was made, num / k / str its number, key or string argument
Call(op, r, ver, num, k, str) ==
  [op |-> op, raised |-> r.raised, err |-> r.err, ver |-> ver,
   num |-> num, key |-> k, str |-> str, flag |-> FALSE]

CallFlag(op, r, ver) ==
  [op |-> op, raised |-> r.raised, err |-> r.err, ver |-> ver,
   num |-> Num(0), key |-> NoKey, str |-> <<>>,
   flag |-> IF r.raised THEN FALSE ELSE r.val]

Constructed(op) == Call(op, Ok(<<>>), 0, Num(0), NoKey, <<>>)

\* new Transaction(), or Transaction.fromBytes on 150 bytes
Init ==
  /\ tx \in {Transaction_new} \cup {Transaction_fromBytes(b).val : b \in FromBytesArgs}
  /\ adr = Address_new
  /\ sk = K1
  /\ sig = NoSig
  /\ res = Constructed("new")
  /\ calls = 0
  /\ heap = NoHeap

\* Each call on tx is one step with outcome r; a setter leaves in tx the bytes
\* the call left, whether it returned or raised, and res records the call.

\* tx.setVersion(v)
SetVersion ==
  /\ calls < MaxOps
  /\ \E v \in VersionArgs :
       \E r \in {Transaction_setVersion(tx, v)} :
         /\ calls' = calls + 1
         /\ tx' = r.val
         /\ res' = Call("setVersion", r, Transaction_getVersion(tx), v, NoKey, <<>>)
         /\ UNCHANGED <<heap, adr, sk, sig>>

\* tx.setSender(a)
SetSender ==
  /\ calls < MaxOps
  /\ \E a \in SenderArgs :
       \E r \in {Transaction_setSender(tx, a)} :
         /\ calls' = calls + 1
         /\ tx' = r.val
         /\ res' = Call("setSender", r, Transaction_getVersion(tx), Num(0), NoKey, <<>>)
         /\ UNCHANGED <<heap, adr, sk, sig>>

\* tx.setRecipient(a)
SetRecipient ==
  /\ calls < MaxOps
  /\ \E a \in RecipientArgs :
       \E r \in {Transaction_setRecipient(tx, a)} :
         /\ calls' = calls + 1
         /\ tx' = r.val
         /\ res' = Call("setRecipient", r, Transaction_getVersion(tx), Num(0), NoKey, <<>>)
         /\ UNCHANGED <<heap, adr, sk, sig>>

\* tx.setValue(v)
SetValue ==
  /\ calls < MaxOps
  /\ \E v \in ValueArgs :
       \E r \in {Transaction_setValue(tx, v)} :
         /\ calls' = calls + 1
         /\ tx' = r.val
         /\ res' = Call("setValue", r, Transaction_getVersion(tx), v, NoKey, <<>>)
         /\ UNCHANGED <<heap, adr, sk, sig>>

\* tx.setNonce(v)
SetNonce ==
  /\ calls < MaxOps
  /\ \E v \in NonceArgs :
       \E r \in {Transaction_setNonce(tx, v)} :
         /\ calls' = calls + 1
         /\ tx' = r.val
         /\ res' = Call("setNonce", r, Transaction_getVersion(tx), v, NoKey, <<>>)
         /\ UNCHANGED <<heap, adr, sk, sig>>

\* tx.setSignature(s)
SetSignature ==
  /\ calls < MaxOps
  /\ \E s \in SignatureArgs \cup {SignaturePlusL(Transaction_getSignature(tx))} :
       \E r \in {Transaction_setSignature(tx, s)} :
         /\ calls' = calls + 1
         /\ tx' = r.val
         /\ res' = Call("setSignature", r, Transaction_getVersion(tx), Num(0), NoKey, <<>>)
         /\ UNCHANGED <<heap, adr, sk, sig>>

\* tx.sign(a[1]) with the clock reading a[2]
Sign ==
  /\ calls < MaxOps
  /\ \E a \in SignArgs :
       \E r \in {Transaction_sign(tx, a[1], a[2])} :
         /\ calls' = calls + 1
         /\ tx' = r.val
         /\ res' = Call("sign", r, Transaction_getVersion(tx), a[2], a[1], <<>>)
         /\ UNCHANGED <<heap, adr, sk, sig>>

\* tx.setPrefix(p)
SetPrefix ==
  /\ calls < MaxOps
  /\ \E p \in PrefixArgs :
       \E r \in {Transaction_setPrefix(tx, p)} :
         /\ calls' = calls + 1
         /\ tx' = r.val
         /\ res' = Call("setPrefix", r, Transaction_getVersion(tx), Num(0), NoKey, <<>>)
         /\ UNCHANGED <<heap, adr, sk, sig>>

\* tx.setName(nm)
SetName ==
  /\ calls < MaxOps
  /\ \E nm \in NameArgs :
       \E r \in {Transaction_setName(tx, nm)} :
         /\ calls' = calls + 1
         /\ tx' = r.val
         /\ res' = Call("setName", r, Transaction_getVersion(tx), Num(0), NoKey, nm)
         /\ UNCHANGED <<heap, adr, sk, sig>>

\* tx.setProfitPercent(v)
SetProfitPercent ==
  /\ calls < MaxOps
  /\ \E v \in ProfitArgs :
       \E r \in {Transaction_setProfitPercent(tx, v)} :
         /\ calls' = calls + 1
         /\ tx' = r.val
         /\ res' = Call("setProfitPercent", r, Transaction_getVersion(tx), v, NoKey, <<>>)
         /\ UNCHANGED <<heap, adr, sk, sig>>

\* tx.setFeePercent(v)
SetFeePercent ==
  /\ calls < MaxOps
  /\ \E v \in FeeArgs :
       \E r \in {Transaction_setFeePercent(tx, v)} :
         /\ calls' = calls + 1
         /\ tx' = r.val
         /\ res' = Call("setFeePercent", r, Transaction_getVersion(tx), v, NoKey, <<>>)
         /\ UNCHANGED <<heap, adr, sk, sig>>

\* tx.getRecipient()
GetRecipient ==
  /\ calls < MaxOps
  /\ \E r \in {Transaction_getRecipient(tx)} :
       /\ calls' = calls + 1
       /\ res' = Call("getRecipient", r, Transaction_getVersion(tx), Num(0), NoKey, <<>>)
       /\ UNCHANGED <<heap, tx, adr, sk, sig>>

\* tx.getValue()
GetValue ==
  /\ calls < MaxOps
  /\ \E r \in {Transaction_getValue(tx)} :
       /\ calls' = calls + 1
       /\ res' = Call("getValue", r, Transaction_getVersion(tx), Num(0), NoKey, <<>>)
       /\ UNCHANGED <<heap, tx, adr, sk, sig>>

\* tx.getPrefix()
GetPrefix ==
  /\ calls < MaxOps
  /\ \E r \in {Transaction_getPrefix(tx)} :
       /\ calls' = calls + 1
       /\ res' = Call("getPrefix", r, Transaction_getVersion(tx), Num(0), NoKey, <<>>)
       /\ UNCHANGED <<heap, tx, adr, sk, sig>>

\* tx.getName()
GetName ==
  /\ calls < MaxOps
  /\ \E r \in {Transaction_getName(tx)} :
       /\ calls' = calls + 1
       /\ res' = Call("getName", r, Transaction_getVersion(tx), Num(0), NoKey, <<>>)
       /\ UNCHANGED <<heap, tx, adr, sk, sig>>

\* tx.getProfitPercent()
GetProfitPercent ==
  /\ calls < MaxOps
  /\ \E r \in {Transaction_getProfitPercent(tx)} :
       /\ calls' = calls + 1
       /\ res' = Call("getProfitPercent", r, Transaction_getVersion(tx), Num(0), NoKey, <<>>)
       /\ UNCHANGED <<heap, tx, adr, sk, sig>>

\* tx.getFeePercent()
GetFeePercent ==
  /\ calls < MaxOps
  /\ \E r \in {Transaction_getFeePercent(tx)} :
       /\ calls' = calls + 1
       /\ res' = Call("getFeePercent", r, Transaction_getVersion(tx), Num(0), NoKey, <<>>)
       /\ UNCHANGED <<heap, tx, adr, sk, sig>>

\* tx.verify()
Verify ==
  /\ calls < MaxOps
  /\ \E r \in {Transaction_verify(tx)} :
       /\ calls' = calls + 1
       /\ res' = CallFlag("verify", r, Transaction_getVersion(tx))
       /\ UNCHANGED <<heap, tx, adr, sk, sig>>

\* tx.getSender().getPublicKey().verifySignature(s, m) with m the signed
\* part of tx and s its stored signature or an array of 63, 64 or 65 bytes
VerifySenderSignature ==
  /\ calls < MaxOps
  /\ \E s \in {Transaction_getSignature(tx), arrayNew(65)} \cup SignatureArgs :
       \E pk \in {Address_getPublicKey(Transaction_getSender(tx).val).val} :
         \E r \in {PublicKey_verifySignature(pk, s, slice(tx, 0, 85))} :
           /\ calls' = calls + 1
           /\ res' = [CallFlag("PublicKey.verifySignature", r, Transaction_getVersion(tx))
                      EXCEPT !.key = pk, !.str = s]
           /\ UNCHANGED <<heap, tx, adr, sk, sig>>

Next ==
  \/ SetVersion \/ SetSender \/ SetRecipient \/ SetValue \/ SetNonce
  \/ SetSignature \/ Sign \/ SetPrefix \/ SetName \/ SetProfitPercent
  \/ SetFeePercent \/ GetRecipient \/ GetValue \/ GetPrefix \/ GetName
  \/ GetProfitPercent \/ GetFeePercent \/ Verify \/ VerifySenderSignature

Spec == Init /\ [][Next]_vars

\* ------------------------------------------------------------------------
\* Address: the constructors and setters applied to the address in hand
\* ------------------------------------------------------------------------
\* a1.getBech32() and a2.getBech32(): 62 and 66 characters
B62 == Address_getBech32(A1).val
B66 == Address_getBech32(A2Genesis).val
\* the last checksum character replaced
BadChecksum == [B62 EXCEPT ![62] = IF B62[62] = 113 THEN 112 ELSE 113]
\* upper case
Upper == ArrayOf([i \in 1..Len(B62) |->
           IF B62[i] >= 97 /\ B62[i] <= 122 THEN B62[i] - 32 ELSE B62[i]])
\* 'b' is not in the alphabet
BadCharacter == [B62 EXCEPT ![10] = 98]
NoSeparator == ArrayOf([i \in 1..62 |-> 113])
Bech32Args ==
  {B62, B66, Long66, Short62, BadChecksum, Upper, BadCharacter, NoSeparator,
   slice(B62, 0, 61)}

AddressBytesArgs == {A1, A2Genesis, BadVersionBytes, arrayNew(33)}
KeyArgs == {K1, K2, PK2}
PublicKeyArgs == {PK1, PKGarbage, NoKey}

\* Address.fromKey(K1)
InitAddress ==
  /\ tx = Transaction_new
  /\ adr = A1
  /\ sk = K1
  /\ sig = NoSig
  /\ res = Call("fromKey", Address_fromKey(K1), 0, Num(0), K1, <<>>)
  /\ calls = 0
  /\ heap = NoHeap

\* A static constructor replaces the address in hand by the one it made, or
\* leaves it when it raised; a setter leaves in adr the bytes the call left;
\* a getter records in res.str what it returned.

\* new Address()
NewAddress ==
  /\ adr' = Address_new
  /\ res' = Constructed("new Address")
  /\ UNCHANGED <<heap, tx, sk, sig, calls>>

\* Address.fromBytes(b)
FromBytes ==
  \E b \in AddressBytesArgs :
    \E r \in {Address_fromBytes(b)} :
       /\ adr' = IF r.raised THEN adr ELSE r.val
       /\ res' = Call("fromBytes", r, 0, Num(0), NoKey, b)
       /\ UNCHANGED <<heap, tx, sk, sig, calls>>

\* Address.fromBech32(b)
FromBech32 ==
  \E b \in Bech32Args :
    \E r \in {Address_fromBech32(b)} :
       /\ adr' = IF r.raised THEN adr ELSE r.val
       /\ res' = Call("fromBech32", r, 0, Num(0), NoKey, b)
       /\ UNCHANGED <<heap, tx, sk, sig, calls>>

\* Address.fromKey(k)
FromKey ==
  \E k \in KeyArgs :
    \E r \in {Address_fromKey(k)} :
       /\ adr' = IF r.raised THEN adr ELSE r.val
       /\ res' = Call("fromKey", r, 0, Num(0), k, <<>>)
       /\ UNCHANGED <<heap, tx, sk, sig, calls>>

\* adr.setPrefix(p)
AddressSetPrefix ==
  \E p \in PrefixArgs :
    \E r \in {Address_setPrefix(adr, p)} :
       /\ adr' = r.val
       /\ res' = Call("Address.setPrefix", r, 0, Num(0), NoKey, p)
       /\ UNCHANGED <<heap, tx, sk, sig, calls>>

\* adr.setPublicKey(k)
AddressSetPublicKey ==
  \E k \in PublicKeyArgs :
    \E r \in {Address_setPublicKey(adr, k)} :
       /\ adr' = r.val
       /\ res' = Call("Address.setPublicKey", r, 0, Num(0), k, <<>>)
       /\ UNCHANGED <<heap, tx, sk, sig, calls>>

\* adr.getBech32()
GetBech32 ==
  \E r \in {Address_getBech32(adr)} :
     /\ res' = Call("getBech32", r, 0, Num(0), NoKey, IF r.raised THEN <<>> ELSE r.val)
     /\ UNCHANGED <<heap, tx, adr, sk, sig, calls>>

\* adr.getBytes()
GetBytes ==
  \E r \in {Ok(Address_getBytes(adr))} :
     /\ res' = Call("getBytes", r, 0, Num(0), NoKey, IF r.raised THEN <<>> ELSE r.val)
     /\ UNCHANGED <<heap, tx, adr, sk, sig, calls>>

\* adr.getPrefix()
AddressGetPrefix ==
  \E r \in {Address_getPrefix(adr)} :
     /\ res' = Call("Address.getPrefix", r, 0, Num(0), NoKey, IF r.raised THEN <<>> ELSE r.val)
     /\ UNCHANGED <<heap, tx, adr, sk, sig, calls>>

NextAddress ==
  \/ NewAddress \/ FromBytes \/ FromBech32 \/ FromKey \/ AddressSetPrefix
  \/ AddressSetPublicKey \/ GetBech32 \/ GetBytes \/ AddressGetPrefix

SpecAddress == InitAddress /\ [][NextAddress]_vars

\* ------------------------------------------------------------------------
\* SecretKey: keys made through the public interface, signing, verifying
\* ------------------------------------------------------------------------
SecretKeyBytesArgs == {K2.bytes, MixedKeyBytes, arrayNew(64), arrayNew(63)}
Messages == {<<>>, <<1, 2, 3>>, slice(Transaction_new, 0, 85)}

\* SecretKey.fromSeed(Seed32)
InitKey ==
  /\ tx = Transaction_new
  /\ adr = Address_new
  /\ sk = K1
  /\ sig = NoSig
  /\ res = Call("fromSeed", SecretKey_fromSeed(Seed32), 0, Num(0), K1, Seed32)
  /\ calls = 0
  /\ heap = NoHeap

\* SecretKey.fromSeed(seed)
FromSeed ==
  \E seed \in Seeds :
    \E r \in {SecretKey_fromSeed(seed)} :
       /\ sk' = r.val
       /\ res' = Call("fromSeed", r, 0, Num(0), r.val, seed)
       /\ UNCHANGED <<heap, tx, adr, sig, calls>>

\* new SecretKey(b): the key in hand is kept when the constructor raised
NewSecretKey ==
  \E b \in SecretKeyBytesArgs :
    \E r \in {SecretKey_new(b)} :
       /\ sk' = IF r.raised THEN sk ELSE r.val
       /\ res' = Call("new SecretKey", r, 0, Num(0), NoKey, b)
       /\ UNCHANGED <<heap, tx, adr, sig, calls>>

\* sig keeps the message, the signature and the key that made it
KeySign ==
  \E m \in Messages :
    /\ sig' = [m |-> m, s |-> SecretKey_sign(sk, m), k |-> sk]
    /\ res' = Call("SecretKey.sign", Ok(<<>>), 0, Num(0), sk, m)
    /\ UNCHANGED <<heap, tx, adr, sk, calls>>

\* sk.getPublicKey().verifySignature(sig.s, sig.m)
VerifySignature ==
  /\ sig # NoSig
  /\ res' = [CallFlag("verifySignature",
                      PublicKey_verifySignature(SecretKey_getPublicKey(sk).val, sig.s, sig.m),
                      0)
             EXCEPT !.key = sk, !.str = sig.m]
  /\ UNCHANGED <<heap, tx, adr, sk, sig, calls>>

NextKey == FromSeed \/ NewSecretKey \/ KeySign \/ VerifySignature

SpecKey == InitKey /\ [][NextKey]_vars

\* ------------------------------------------------------------------------
\* Codecs and hash preprocessing: the functions applied to drawn inputs
\* ------------------------------------------------------------------------
\* longest message of the run of lengths 0..MaxMessageLen
MaxMessageLen == 130
\* a message of 8 KiB, the first whose bit length needs more than 16 bits
LongMessageLen == 8192
MessageLengths == 0..MaxMessageLen \cup {LongMessageLen - 1, LongMessageLen}
MessageOf(len) == ArrayOf([i \in 1..len |-> (37 * i + len) % 256])

\* the record of an application: function, argument, outcome
Applied(op, arg, r) ==
  [op |-> op, arg |-> arg, raised |-> r.raised, err |-> r.err, val |-> r.val]

\* nothing applied yet
InitCodec ==
  /\ tx = Transaction_new
  /\ adr = Address_new
  /\ sk = K1
  /\ sig = NoSig
  /\ res = Applied("none", <<>>, Ok(<<>>))
  /\ calls = 0
  /\ heap = NoHeap

\* The functions are pure, so a behaviour is one application: calls counts it.

Sha256PreProcess ==
  /\ calls = 0
  /\ \E len \in MessageLengths :
       \E m \in {MessageOf(len)} :
         /\ calls' = 1
         /\ res' = Applied("sha256PreProcess", m, Ok(sha256PreProcess(m)))
         /\ UNCHANGED <<heap, tx, adr, sk, sig>>

Sha512PreProcess ==
  /\ calls = 0
  /\ \E len \in MessageLengths :
       \E m \in {MessageOf(len)} :
         /\ calls' = 1
         /\ res' = Applied("sha512PreProcess", m, Ok(sha512PreProcess(m)))
         /\ UNCHANGED <<heap, tx, adr, sk, sig>>

\* 'A', 'Q', '=', '*'
Base64Chars == {65, 81, 61, 42}
\* every string of four of these characters; '', 'QUI', 'QUJDR', 'QUJDRA==',
\* 'QQ==QUJD', 'QUJDQ=JD', 'QUJD===='
Base64Args ==
  {<<a, b, c, d>> : a \in Base64Chars, b \in Base64Chars, c \in Base64Chars,
                    d \in Base64Chars}
    \cup {<<>>, <<81, 85, 73>>, <<81, 85, 74, 68, 82>>,
          <<81, 85, 74, 68, 82, 65, 61, 61>>, <<81, 81, 61, 61, 81, 85, 74, 68>>,
          <<81, 85, 74, 68, 81, 61, 74, 68>>, <<81, 85, 74, 68, 61, 61, 61, 61>>}

Base64Decode ==
  /\ calls = 0
  /\ \E str \in Base64Args :
       /\ calls' = 1
       /\ res' = Applied("base64Decode", str, base64Decode(str))
       /\ UNCHANGED <<heap, tx, adr, sk, sig>>

\* strings Address.fromBech32 accepts: 62 and 66 characters with either kind
\* of prefix, and one in upper case
AcceptedBech32 == {B62, B66, Long66, Short62, Upper}

\* Address.fromBech32 on a string of AcceptedBech32 with the character at
\* one position after the separator replaced by another of the alphabet
FromBech32Altered ==
  /\ calls = 0
  /\ \E s \in AcceptedBech32 :
       \E at \in (lastIndexOf(toLowerCase(s), 49) + 2)..Len(s) :
         \E c \in {bech32Alphabet[k] : k \in 1..32} \ {s[at]} :
           /\ calls' = 1
           /\ res' = Applied("fromBech32", [of |-> s, at |-> at, by |-> c],
                             Address_fromBech32([s EXCEPT ![at] = c]))
           /\ UNCHANGED <<heap, tx, adr, sk, sig>>

\* the substitutions alone: one application of fromBech32 per behaviour
NextSubstitution == FromBech32Altered

SpecSubstitution == InitCodec /\ [][NextSubstitution]_vars

\* longest of the byte arrays drawn in full over SampleBytes
MaxBytes == 4
SampleBytes == {0, 63, 64, 128, 251, 255}
\* every array of at most MaxBytes sample bytes, every single byte, every
\* <<a, 255 - a, a>>, and a 32-byte and a 64-byte key
ByteArrays ==
  UNION {[1..n -> SampleBytes] : n \in 0..MaxBytes}
    \cup {<<a>> : a \in 0..255} \cup {<<a, 255 - a, a>> : a \in 0..255}
    \cup {PK1.bytes, K1.bytes}

Base64Encode ==
  /\ calls = 0
  /\ \E b \in ByteArrays :
       /\ calls' = 1
       /\ res' = Applied("base64Encode", b, Ok(base64Encode(b)))
       /\ UNCHANGED <<heap, tx, adr, sk, sig>>

HexEncode ==
  /\ calls = 0
  /\ \E b \in ByteArrays :
       /\ calls' = 1
       /\ res' = Applied("hexEncode", b, Ok(hexEncode(b)))
       /\ UNCHANGED <<heap, tx, adr, sk, sig>>

\* every 16-bit version, and the two integers next to the range
VersionCodes == -1..65536
\* every string of three letters a..z; 'genesis', 'ab', 'a1z', 'AAA', '`aa',
\* '{zz', 'umia'
Letters == 97..122
PrefixStrings ==
  {<<a, b, c>> : a \in Letters, b \in Letters, c \in Letters}
    \cup {genesis, <<97, 98>>, <<97, 49, 122>>, <<65, 65, 65>>, <<96, 97, 97>>,
          <<123, 122, 122>>, <<117, 109, 105, 97>>}

VersionToPrefix ==
  /\ calls = 0
  /\ \E v \in VersionCodes :
       /\ calls' = 1
       /\ res' = Applied("versionToPrefix", v, versionToPrefix(v))
       /\ UNCHANGED <<heap, tx, adr, sk, sig>>

PrefixToVersion ==
  /\ calls = 0
  /\ \E p \in PrefixStrings :
       /\ calls' = 1
       /\ res' = Applied("prefixToVersion", p, prefixToVersion(p))
       /\ UNCHANGED <<heap, tx, adr, sk, sig>>

NextCodec ==
  \/ Base64Decode \/ Sha256PreProcess \/ Sha512PreProcess
  \/ Base64Encode \/ HexEncode
  \/ VersionToPrefix \/ PrefixToVersion

SpecCodec == InitCodec /\ [][NextCodec]_vars

\* ------------------------------------------------------------------------
\* Arrays with identity: which array each constructor, setter and accessor
\* reads, writes and makes.  A reference is an index into mem; [] and
\* slice() make a new array; the caller can write to the arrays it holds.
\* ------------------------------------------------------------------------
\* bound on the number of arrays made in one behaviour
MaxArrays == 6

allocate(mem, a) == Append(mem, a)

\* outcome of a call: the heap it leaves and the reference it made
Made(mem, ref) == [raised |-> FALSE, err |-> "", mem |-> mem, ref |-> ref]
Failed(mem, e) == [raised |-> TRUE, err |-> e, mem |-> mem, ref |-> NoRef]

\* arraySet(a, b, offset) on the arrays a and b of the heap
arraySetAt(mem, a, b, offset) == [mem EXCEPT ![a] = arraySet(mem[a], mem[b], offset, 0)]

\* a constructor that keeps the caller's array as its _bytes
PublicKey_newAtKeepsArgument(mem, bytes) ==
  IF Len(mem[bytes]) # 32 THEN Failed(mem, "invalid length")
  ELSE Made(mem, bytes)

\* new PublicKey(bytes): this._bytes = [], the length test, arraySet
PublicKey_newAt(mem, bytes) ==
  IF Len(mem[bytes]) # 32 THEN Failed(mem, "invalid length")
  ELSE Made(arraySetAt(allocate(mem, <<>>), Len(mem) + 1, bytes, 0), Len(mem) + 1)

SecretKey_newAt(mem, bytes) ==
  IF Len(mem[bytes]) # 64 THEN Failed(mem, "invalid length")
  ELSE Made(arraySetAt(allocate(mem, <<>>), Len(mem) + 1, bytes, 0), Len(mem) + 1)

\* Address.fromBytes(bytes): the length test, new Address(), arraySet
Address_fromBytesAt(mem, bytes) ==
  IF Len(mem[bytes]) # 34 THEN Failed(mem, "length must be 34 bytes")
  ELSE Made(arraySetAt(allocate(mem, Address_new), Len(mem) + 1, bytes, 0), Len(mem) + 1)

Transaction_fromBytesAt(mem, bytes) ==
  IF Len(mem[bytes]) # 150 THEN Failed(mem, "invalid length")
  ELSE Made(arraySetAt(allocate(mem, Transaction_new), Len(mem) + 1, bytes, 0), Len(mem) + 1)

\* this.setSignature(signature) returns this
Transaction_setSignatureAt(mem, this, signature) ==
  IF Len(mem[signature]) # 64 THEN Failed(mem, "invalid length")
  ELSE Made(arraySetAt(mem, this, signature, 85), this)

\* this._bytes.slice(0) and this._bytes.slice(85, 149)
PublicKey_getBytesAt(mem, this) ==
  Made(allocate(mem, slice(mem[this], 0, Len(mem[this]))), Len(mem) + 1)
SecretKey_getBytesAt(mem, this) ==
  Made(allocate(mem, slice(mem[this], 0, Len(mem[this]))), Len(mem) + 1)
Address_getBytesAt(mem, this) ==
  Made(allocate(mem, Address_getBytes(mem[this])), Len(mem) + 1)
Transaction_getBytesAt(mem, this) ==
  Made(allocate(mem, Transaction_getBytes(mem[this])), Len(mem) + 1)
Transaction_getSignatureAt(mem, this) ==
  Made(allocate(mem, Transaction_getSignature(mem[this])), Len(mem) + 1)

\* arrays the caller writes itself: a public key, a secret key (64 bytes,
\* also a signature), an address, a transaction
CallerArrays == {PK2.bytes, K2.bytes, A1, StructureBytes}

\* the last call on the heap
HeapCall(op, ref, r) == [op |-> op, ref |-> ref, raised |-> r.raised, err |-> r.err]

\* what the accessors of entity e read
Contents(h, e) == IF h.obj[e] = NoRef THEN <<>> ELSE h.mem[h.obj[e]]

\* new Address(), new Transaction(), SecretKey.fromSeed(Seed32) and its
\* getPublicKey()
InitHeap ==
  /\ tx = Transaction_new
  /\ adr = Address_new
  /\ sk = K1
  /\ sig = NoSig
  /\ res = HeapCall("new", NoRef, Ok(<<>>))
  /\ calls = 0
  /\ heap = [mem |-> <<Address_new, Transaction_new, K1.bytes, PK1.bytes>>,
             obj |-> [pk |-> 4, sk |-> 3, adr |-> 1, tx |-> 2],
             held |-> {}]

\* the caller makes an array
CallerArray ==
  /\ Len(heap.mem) < MaxArrays
  /\ \E a \in CallerArrays :
       /\ heap' = [heap EXCEPT !.mem = allocate(heap.mem, a),
                               !.held = heap.held \cup {Len(heap.mem) + 1}]
       /\ res' = HeapCall("array", Len(heap.mem) + 1, Ok(<<>>))
       /\ UNCHANGED <<tx, adr, sk, sig, calls>>

\* the caller writes element 0 of an array it holds
Mutate ==
  \E b \in heap.held :
    /\ heap.mem[b] # <<>>
    /\ heap' = [heap EXCEPT !.mem[b][1] = 255]
    /\ res' = HeapCall("mutate", b, Ok(<<>>))
    /\ UNCHANGED <<tx, adr, sk, sig, calls>>

\* new PublicKey(b)
NewPublicKeyOf ==
  /\ Len(heap.mem) < MaxArrays
  /\ \E b \in heap.held :
       \E r \in {PublicKey_newAt(heap.mem, b)} :
         /\ heap' = IF r.raised THEN heap
                    ELSE [heap EXCEPT !.mem = r.mem, !.obj.pk = r.ref]
         /\ res' = HeapCall("new PublicKey", b, r)
         /\ UNCHANGED <<tx, adr, sk, sig, calls>>

\* new SecretKey(b)
NewSecretKeyOf ==
  /\ Len(heap.mem) < MaxArrays
  /\ \E b \in heap.held :
       \E r \in {SecretKey_newAt(heap.mem, b)} :
         /\ heap' = IF r.raised THEN heap
                    ELSE [heap EXCEPT !.mem = r.mem, !.obj.sk = r.ref]
         /\ res' = HeapCall("new SecretKey", b, r)
         /\ UNCHANGED <<tx, adr, sk, sig, calls>>

\* Address.fromBytes(b)
AddressFromBytesOf ==
  /\ Len(heap.mem) < MaxArrays
  /\ \E b \in heap.held :
       \E r \in {Address_fromBytesAt(heap.mem, b)} :
         /\ heap' = IF r.raised THEN heap
                    ELSE [heap EXCEPT !.mem = r.mem, !.obj.adr = r.ref]
         /\ res' = HeapCall("Address.fromBytes", b, r)
         /\ UNCHANGED <<tx, adr, sk, sig, calls>>

\* Transaction.fromBytes(b)
TransactionFromBytesOf ==
  /\ Len(heap.mem) < MaxArrays
  /\ \E b \in heap.held :
       \E r \in {Transaction_fromBytesAt(heap.mem, b)} :
         /\ heap' = IF r.raised THEN heap
                    ELSE [heap EXCEPT !.mem = r.mem, !.obj.tx = r.ref]
         /\ res' = HeapCall("Transaction.fromBytes", b, r)
         /\ UNCHANGED <<tx, adr, sk, sig, calls>>

\* the transaction's setSignature(b)
SetSignatureOf ==
  \E b \in heap.held :
    \E r \in {Transaction_setSignatureAt(heap.mem, heap.obj.tx, b)} :
       /\ heap' = [heap EXCEPT !.mem = r.mem]
       /\ res' = HeapCall("setSignature", b, r)
       /\ UNCHANGED <<tx, adr, sk, sig, calls>>

\* An accessor hands the array it made to the caller.

PublicKeyGetBytes ==
  /\ Len(heap.mem) < MaxArrays
  /\ \E r \in {PublicKey_getBytesAt(heap.mem, heap.obj.pk)} :
       /\ heap' = [heap EXCEPT !.mem = r.mem, !.held = heap.held \cup {r.ref}]
       /\ res' = HeapCall("PublicKey.getBytes", r.ref, r)
       /\ UNCHANGED <<tx, adr, sk, sig, calls>>

SecretKeyGetBytes ==
  /\ Len(heap.mem) < MaxArrays
  /\ \E r \in {SecretKey_getBytesAt(heap.mem, heap.obj.sk)} :
       /\ heap' = [heap EXCEPT !.mem = r.mem, !.held = heap.held \cup {r.ref}]
       /\ res' = HeapCall("SecretKey.getBytes", r.ref, r)
       /\ UNCHANGED <<tx, adr, sk, sig, calls>>

AddressGetBytes ==
  /\ Len(heap.mem) < MaxArrays
  /\ \E r \in {Address_getBytesAt(heap.mem, heap.obj.adr)} :
       /\ heap' = [heap EXCEPT !.mem = r.mem, !.held = heap.held \cup {r.ref}]
       /\ res' = HeapCall("Address.getBytes", r.ref, r)
       /\ UNCHANGED <<tx, adr, sk, sig, calls>>

TransactionGetBytes ==
  /\ Len(heap.mem) < MaxArrays
  /\ \E r \in {Transaction_getBytesAt(heap.mem, heap.obj.tx)} :
       /\ heap' = [heap EXCEPT !.mem = r.mem, !.held = heap.held \cup {r.ref}]
       /\ res' = HeapCall("Transaction.getBytes", r.ref, r)
       /\ UNCHANGED <<tx, adr, sk, sig, calls>>

TransactionGetSignature ==
  /\ Len(heap.mem) < MaxArrays
  /\ \E r \in {Transaction_getSignatureAt(heap.mem, heap.obj.tx)} :
       /\ heap' = [heap EXCEPT !.mem = r.mem, !.held = heap.held \cup {r.ref}]
       /\ res' = HeapCall("Transaction.getSignature", r.ref, r)
       /\ UNCHANGED <<tx, adr, sk, sig, calls>>

NextHeap ==
  \/ CallerArray \/ Mutate \/ NewPublicKeyOf \/ NewSecretKeyOf
  \/ AddressFromBytesOf \/ TransactionFromBytesOf \/ SetSignatureOf
  \/ PublicKeyGetBytes \/ SecretKeyGetBytes \/ AddressGetBytes
  \/ TransactionGetBytes \/ TransactionGetSignature

SpecHeap == InitHeap /\ [][NextHeap]_vars

\* ------------------------------------------------------------------------
\* Properties
\* ------------------------------------------------------------------------

\* C1: for a Transaction of any version 0..7 whose sender address carries
\* the public key of a SecretKey made by SecretKey.fromSeed, immediately
\* after sign(k) returned, verify() returns true.
C1_SignThenVerify ==
  (/\ res.op = "sign" /\ ~res.raised
   /\ res.key \in SeedKeys
   /\ Transaction_getVersion(tx) \in 0..7
   /\ slice(tx, 3, 35) = slice(res.key.bytes, 32, 64))
  => Transaction_verify(tx) = Ok(TRUE)

\* a version-5 transaction with the signer's public key as sender has just
\* been signed, and verifies
C1_Witness ==
  /\ res.op = "sign" /\ ~res.raised
  /\ res.key \in SeedKeys
  /\ Transaction_getVersion(tx) = 5
  /\ slice(tx, 3, 35) = slice(res.key.bytes, 32, 64)
  /\ Transaction_verify(tx) = Ok(TRUE)

\* C2: for any SecretKey k made through the public interface (new
\* SecretKey(bytes) on any 64 bytes included) and any message m,
\* k.getPublicKey().verifySignature(k.sign(m), m) returns true.
C2_OwnSignatureVerifies ==
  (res.op = "verifySignature" /\ sig.k = res.key)
  => (~res.raised /\ res.flag = TRUE)

\* C3: a version-gated accessor called while the version is outside its
\* permitted set raises 'invalid version': getRecipient/setRecipient outside
\* {0,1,4,5,6,7}, getValue/setValue outside {0,1}, the prefix, name, profit
\* and fee accessors outside {2,3}; the version is the one at the call.
C3_GatedAccessorRaises ==
  LET permitted ==
        IF res.op \in {"getRecipient", "setRecipient"} THEN {0, 1, 4, 5, 6, 7}
        ELSE IF res.op \in {"getValue", "setValue"} THEN {0, 1}
        ELSE {2, 3}
  IN (/\ res.op \in {"getRecipient", "setRecipient", "getValue", "setValue",
                     "getPrefix", "setPrefix", "getName", "setName",
                     "getProfitPercent", "setProfitPercent",
                     "getFeePercent", "setFeePercent"}
      /\ res.ver \notin permitted)
     => (res.raised /\ res.err = "invalid version")

\* getPrefix was called on a transaction that setVersion had moved to
\* version 6, and raised 'invalid version'
C3_Witness ==
  /\ res.op = "getPrefix" /\ res.ver = 6
  /\ res.raised /\ res.err = "invalid version"

\* C4 as stated: on every reachable transaction of version 2 or 3,
\* getPrefix, getName, getProfitPercent and getFeePercent return without
\* raising; of version 0 or 1, getValue and getRecipient do.
C4_PermittedGettersReturn ==
  /\ Transaction_getVersion(tx) \in {2, 3}
       => /\ ~Transaction_getPrefix(tx).raised
          /\ ~Transaction_getName(tx).raised
          /\ ~Transaction_getProfitPercent(tx).raised
          /\ ~Transaction_getFeePercent(tx).raised
  /\ Transaction_getVersion(tx) \in {0, 1}
       => /\ ~Transaction_getValue(tx).raised
          /\ ~Transaction_getRecipient(tx).raised

\* C4 amended: on every reachable transaction of version 2 or 3,
\* getProfitPercent and getFeePercent return without raising, getName raises
\* exactly when the stored name length (byte 41) exceeds 35, and getPrefix
\* raises exactly when the stored prefix code (bytes 35..36) is neither 0 nor
\* a code below 2^15 made of three letters 1..26; of version 0 or 1, getValue
\* and getRecipient return without raising.
C4_GettersRaiseOnStoredGarbageOnly ==
  LET code == tx[36] * 256 + tx[37]
      letters == {(code \div 1024) % 32, (code \div 32) % 32, code % 32}
      isPrefix == code = 0 \/ (code < 32768 /\ letters \subseteq 1..26)
  IN /\ Transaction_getVersion(tx) \in {2, 3}
          => /\ ~Transaction_getProfitPercent(tx).raised
             /\ ~Transaction_getFeePercent(tx).raised
             /\ Transaction_getName(tx).raised <=> tx[42] > 35
             /\ Transaction_getPrefix(tx).raised <=> ~isPrefix
     /\ Transaction_getVersion(tx) \in {0, 1}
          => /\ ~Transaction_getValue(tx).raised
             /\ ~Transaction_getRecipient(tx).raised

\* getName was called on a version-2 transaction whose byte 41 exceeds 35,
\* left there by setRecipient under another version, and raised
C4_Witness ==
  /\ res.op = "getName" /\ res.ver = 2 /\ res.raised /\ res.err = "invalid length"
  /\ tx[42] > 35 /\ calls >= 2

\* C5: after any sequence of new Address, fromBytes, fromBech32, fromKey,
\* setPrefix and setPublicKey, getBytes() returns exactly 34 bytes.
C5_GetBytesIs34 == Len(Address_getBytes(adr)) = 34

\* C6: Address.fromBech32 accepts a string only if it is 62 characters long
\* with a 3-letter prefix or 66 characters long with the prefix 'genesis'.
C6_AcceptsMatchingLengthOnly ==
  (res.op = "fromBech32" /\ ~res.raised)
  => LET str == toLowerCase(res.str)
         sepPos == lastIndexOf(str, 49)
     IN \/ Len(str) = 62 /\ sepPos = 3
        \/ Len(str) = 66 /\ slice(str, 0, sepPos) = genesis

\* C7: for every Address a made through the public interface (fromBytes on
\* any 34 bytes included), Address.fromBech32(a.getBech32()) succeeds and
\* has the bytes of a.
C7_Bech32RoundTrip ==
  /\ ~Address_getBech32(adr).raised
  /\ ~Address_fromBech32(Address_getBech32(adr).val).raised
  /\ Address_getBytes(Address_fromBech32(Address_getBech32(adr).val).val)
       = Address_getBytes(adr)

\* C8: a mutating operation on a Transaction that raises leaves the bytes
\* of the transaction as they were before the call.
C8_RaisingMutatorLeavesBytes ==
  [][(/\ res'.raised
      /\ res'.op \in {"setVersion", "setSender", "setRecipient", "setValue",
                      "setNonce", "setSignature", "setPrefix", "setName",
                      "setProfitPercent", "setFeePercent", "sign"})
     => tx' = tx]_vars

\* C9: in every reachable state of a Transaction, getVersion() is an
\* integer in 0..7.
C9_VersionInRange == Transaction_getVersion(tx) \in 0..7

\* C10: a numeric setter, the version permitting the field, succeeds
\* exactly when its argument is an integer in the documented range:
\* setVersion 0..7, setProfitPercent 100..500, setFeePercent 0..2000,
\* setValue 1..2^64-1, setNonce 0..2^64-1.
C10_NumericSetterRange ==
  LET maxUint64 == BigNum(<<255, 255, 255, 255, 255, 255, 255, 255>>)
      lo == IF res.op = "setProfitPercent" THEN Num(100)
            ELSE IF res.op = "setValue" THEN Num(1) ELSE Num(0)
      hi == IF res.op = "setVersion" THEN Num(7)
            ELSE IF res.op = "setProfitPercent" THEN Num(500)
            ELSE IF res.op = "setFeePercent" THEN Num(2000) ELSE maxUint64
      permitted == IF res.op = "setValue" THEN res.ver \in {0, 1}
                   ELSE IF res.op \in {"setProfitPercent", "setFeePercent"}
                   THEN res.ver \in {2, 3} ELSE TRUE
      inRange == /\ res.num.t = "number" /\ res.num.k = "int"
                 /\ ~NumLess(res.num, lo) /\ ~NumLess(hi, res.num)
  IN (/\ res.op \in {"setVersion", "setProfitPercent", "setFeePercent",
                     "setValue", "setNonce"}
      /\ permitted)
     => (~res.raised <=> inRange)

\* C11: every SecretKey made through the public interface holds 64 bytes
\* whose last 32 are the public key that seed expansion derives from its
\* first 32, so getPublicKey() returns the key matching the signing seed.
C11_KeyHoldsDerivedPublicKey ==
  /\ Len(SecretKey_getBytes(sk)) = 64
  /\ SecretKey_getPublicKey(sk).val.bytes
       = slice(secretKeyFromSeed(slice(SecretKey_getBytes(sk), 0, 32)), 32, 64)

\* C12: PublicKey.verifySignature raises exactly when the signature is not
\* 64 bytes long, and then 'invalid length'; on a 64-byte signature it
\* returns true or false for every message and every 32-byte key, encodings
\* of no curve point included; Transaction.verify() raises on no reachable
\* transaction.
C12_VerifyRaisesOnLengthOnly ==
  /\ res.op = "PublicKey.verifySignature"
       => /\ res.raised <=> Len(res.str) # 64
          /\ res.raised => res.err = "invalid length"
          /\ ~res.raised => res.flag \in BOOLEAN
  /\ res.op = "verify" => ~res.raised
  /\ ~Transaction_verify(tx).raised

\* verifySignature was called with 64 bytes on a sender key that encodes no
\* curve point, and returned false
C12_Witness ==
  /\ res.op = "PublicKey.verifySignature" /\ Len(res.str) = 64
  /\ Len(res.key.bytes) = 32 /\ ~unpackneg(res.key.bytes).ok
  /\ ~res.raised /\ res.flag = FALSE

\* C13: Transaction.sign(k) at clock time T first stores T in the nonce
\* field, whatever an earlier setNonce left there, and then signs: after the
\* call getNonce() is T, the stored signature is k's signature of bytes
\* 0..84 as they are after the call (T included), and it verifies against
\* those bytes under the public key of a k made by SecretKey.fromSeed.
C13_SignStampsNonceFirst ==
  (res.op = "sign" /\ ~res.raised)
  => /\ Transaction_getNonce(tx) = Ok(res.num)
     /\ slice(tx, 77, 85) = uint64ToBytes(res.num)
     /\ Transaction_getSignature(tx) = SecretKey_sign(res.key, slice(tx, 0, 85))
     /\ res.key \in SeedKeys
          => PublicKey_verifySignature(SecretKey_getPublicKey(res.key).val,
                                       Transaction_getSignature(tx),
                                       slice(tx, 0, 85)) = Ok(TRUE)

\* sign at clock time T1 followed a setNonce(42): the nonce field holds T1
\* and the stored signature verifies under the signer's public key
C13_Witness ==
  /\ res.op = "sign" /\ ~res.raised /\ calls = 2 /\ res.num = T1
  /\ res.key \in SeedKeys
  /\ Transaction_getNonce(tx) = Ok(T1)
  /\ Transaction_getNonce(tx) # Ok(Num(42))
  /\ PublicKey_verifySignature(SecretKey_getPublicKey(res.key).val,
                               Transaction_getSignature(tx),
                               slice(tx, 0, 85)) = Ok(TRUE)

\* C14: SecretKey.fromSeed(seed) for a seed of a length other than 32 is the
\* key SecretKey.fromSeed(sha256(seed)); for a 32-byte seed the key's first
\* 32 bytes are the seed and its last 32 the public key derived from it (the
\* packed base-point multiple of the clamped first half of sha512(seed)).
C14_FromSeedHashesOddLengths ==
  (res.op = "fromSeed")
  => /\ ~res.raised
     /\ Len(SecretKey_getBytes(res.key)) = 64
     /\ Len(res.str) # 32
          => res.key = SecretKey_fromSeed(sha256(res.str)).val
     /\ Len(res.str) = 32
          => /\ slice(SecretKey_getBytes(res.key), 0, 32) = res.str
             /\ slice(SecretKey_getBytes(res.key), 32, 64)
                  = pack(scalarbase(slice(clamp(sha512(res.str)), 0, 32)))

\* fromSeed was called with a 3-byte seed and returned the key of the
\* seed's SHA-256
C14_Witness ==
  /\ res.op = "fromSeed" /\ ~res.raised /\ res.str = SeedShort
  /\ sk = res.key
  /\ slice(SecretKey_getBytes(sk), 0, 32) = sha256(SeedShort)

\* the four bytes of a 32-bit word, most significant first
WordBytes(w) ==
  <<IF w < 0 THEN 256 + (w \div 16777216) ELSE w \div 16777216,
    (w % 16777216) \div 65536, (w % 65536) \div 256, w % 256>>

\* the bytes of the chunks of sha256PreProcess and of sha512PreProcess
ChunkBytes256(chunks) ==
  ArrayOf([i \in 1..(64 * Len(chunks)) |->
    WordBytes(chunks[((i - 1) \div 64) + 1][(((i - 1) % 64) \div 4) + 1])[((i - 1) % 4) + 1]])

ChunkBytes512(chunks) ==
  ArrayOf([i \in 1..(128 * Len(chunks)) |->
    WordBytes(chunks[((i - 1) \div 128) + 1][(((i - 1) % 128) \div 8) + 1]
                    [(((i - 1) % 8) \div 4) + 1])[((i - 1) % 4) + 1]])

\* the message, 0x80, zeros up to the smallest multiple of block that is at
\* least len + 1 + suffix, the last suffix bytes holding 8 * len big-endian
StandardPadding(message, block, suffix) ==
  LET len == Len(message)
      total == ((len + suffix + block) \div block) * block
  IN message \o <<128>> \o arrayNew(total - len - 1 - suffix) \o Digits(8 * len, suffix)

\* C15: for a message of n bytes sha256PreProcess yields the message, 0x80,
\* zeros and the 64-bit big-endian bit length 8n, padded to the smallest
\* multiple of 64 that is at least n + 9; sha512PreProcess the same with
\* 128-byte blocks, n + 17 and a 128-bit suffix; the suffix is 8n for every n.
C15_PaddingMatchesStandard ==
  /\ res.op = "sha256PreProcess"
       => ChunkBytes256(res.val) = StandardPadding(res.arg, 64, 8)
  /\ res.op = "sha512PreProcess"
       => ChunkBytes512(res.val) = StandardPadding(res.arg, 128, 16)

\* C16: accessors return copies and constructors, fromBytes and setters
\* store copies: a write by the caller to an array it got from getBytes or
\* getSignature, or passed to a constructor, fromBytes or setSignature,
\* changes the bytes of no entity, so no later accessor returns anything else.
C16_CallerWritesReachNoEntity ==
  [][res'.op = "mutate"
       => \A e \in {"pk", "sk", "adr", "tx"} : Contents(heap', e) = Contents(heap, e)]_vars

\* the caller wrote to the array it had passed to new PublicKey, and the
\* key's bytes are as they were: they differ from the array's in element 0
C16_Witness ==
  /\ res.op = "mutate" /\ heap.obj.pk # NoRef
  /\ res.ref \in heap.held /\ heap.mem[res.ref][1] = 255
  /\ Contents(heap, "pk") = PK2.bytes
  /\ heap.mem[res.ref] = [PK2.bytes EXCEPT ![1] = 255]

\* a multiple of four characters of the alphabet, the last one or two of
\* which may be '='
WellFormedBase64(str) ==
  LET len == Len(str)
      pad == IF len > 0 /\ str[len] = 61
             THEN (IF str[len - 1] = 61 THEN 2 ELSE 1) ELSE 0
  IN /\ len % 4 = 0
     /\ \A i \in 1..(len - pad) : indexOf(base64Alphabet, str[i]) # -1

\* C17: base64Decode raises on every string that is not well-formed Base64
\* (a length that is no multiple of 4, a character outside the alphabet, a
\* '=' that is not one of the final one or two characters) and returns no
\* shortened result for it.
C17_Base64DecodeRejectsMalformed ==
  (res.op = "base64Decode" /\ ~WellFormedBase64(res.arg)) => res.raised

\* the bytes from 1-based position i on are well-formed UTF-8
RECURSIVE WellFormedUtf8From(_, _)
WellFormedUtf8From(bytes, i) ==
  LET b0 == bytes[i]
      cont(k) == i + k <= Len(bytes) /\ bytes[i + k] >= 128 /\ bytes[i + k] <= 191
  IN IF i > Len(bytes) THEN TRUE
     ELSE IF b0 < 128 THEN WellFormedUtf8From(bytes, i + 1)
     ELSE IF b0 >= 194 /\ b0 <= 223
     THEN cont(1) /\ WellFormedUtf8From(bytes, i + 2)
     ELSE IF b0 >= 224 /\ b0 <= 239
     THEN /\ cont(1) /\ cont(2)
          /\ b0 = 224 => bytes[i + 1] >= 160
          /\ b0 = 237 => bytes[i + 1] <= 159
          /\ WellFormedUtf8From(bytes, i + 3)
     ELSE IF b0 >= 240 /\ b0 <= 244
     THEN /\ cont(1) /\ cont(2) /\ cont(3)
          /\ b0 = 240 => bytes[i + 1] >= 144
          /\ b0 = 244 => bytes[i + 1] <= 143
          /\ WellFormedUtf8From(bytes, i + 4)
     ELSE FALSE

\* C18: textDecode, and with it Transaction.getName, raises when the bytes
\* are not valid UTF-8 (a continuation byte in lead position, a sequence cut
\* off at the end); it returns no string for them.
C18_GetNameRejectsInvalidUtf8 ==
  (/\ Transaction_getVersion(tx) \in {2, 3}
   /\ tx[42] <= 35
   /\ ~WellFormedUtf8From(slice(tx, 42, 42 + tx[42]), 1))
  => Transaction_getName(tx).raised

\* C19: prefixToVersion and versionToPrefix are mutually inverse: a string
\* p of three letters a..z gives versionToPrefix(prefixToVersion(p)) = p; a
\* version v in 0..65535 that versionToPrefix accepts gives
\* prefixToVersion(versionToPrefix(v)) = v; 'genesis' maps to 0 and 0 to
\* 'genesis'; and versionToPrefix rejects every v (other than the 0 of
\* 'genesis') that has bit 15 set or a 5-bit group outside 1..26.
C19_PrefixVersionInverse ==
  /\ (res.op = "prefixToVersion" /\ Len(res.arg) = 3
        /\ \A i \in 1..3 : res.arg[i] \in Letters)
       => /\ ~res.raised
          /\ versionToPrefix(res.val) = Ok(res.arg)
  /\ (res.op = "prefixToVersion" /\ res.arg = genesis)
       => (~res.raised /\ res.val = 0)
  /\ (res.op = "versionToPrefix" /\ res.arg \in 0..65535 /\ ~res.raised)
       => prefixToVersion(res.val) = Ok(res.arg)
  /\ (res.op = "versionToPrefix" /\ res.arg = 0)
       => (~res.raised /\ res.val = genesis)
  /\ (res.op = "versionToPrefix" /\ res.arg \in 1..65535
        /\ \/ res.arg >= 32768
           \/ \E g \in 0..2 : ((res.arg \div (32 ^ g)) % 32) \notin 1..26)
       => res.raised

\* versionToPrefix was applied to 0x55A9 and returned 'umi', which
\* prefixToVersion maps back
C19_Witness ==
  /\ res.op = "versionToPrefix" /\ res.arg = 21929 /\ ~res.raised
  /\ res.val = umi
  /\ prefixToVersion(umi) = Ok(21929)

C22_SettersAreIndependent ==
  [][/\ (res'.op = "Address.setPrefix" /\ ~res'.raised)
          => /\ slice(adr', 2, Len(adr')) = slice(adr, 2, Len(adr))
             /\ Address_getPrefix(adr') = Ok(res'.str)
             /\ Address_getPublicKey(adr') = Address_getPublicKey(adr)
     /\ (res'.op = "Address.setPublicKey" /\ ~res'.raised)
          => /\ slice(adr', 0, 2) = slice(adr, 0, 2)
             /\ slice(adr', 34, Len(adr')) = slice(adr, 34, Len(adr))
             /\ Address_getPrefix(adr') = Address_getPrefix(adr)
             /\ Address_getPublicKey(adr') = Ok(res'.key)]_vars

\* C23: for every byte array b (values 0..255, any length including 0),
\* base64Decode(base64Encode(b)) = b and hexDecode(hexEncode(b)) = b.
C23_EncodeDecodeRoundTrip ==
  /\ res.op = "base64Encode" => base64Decode(res.val) = Ok(res.arg)
  /\ res.op = "hexEncode" => hexDecode(res.val) = Ok(res.arg)

\* base64Encode gave '+/8=' for the two bytes FB FF, a string with padding,
\* and base64Decode gives the two bytes back
C23_Witness ==
  /\ res.op = "base64Encode" /\ res.arg = <<251, 255>>
  /\ res.val = <<43, 47, 56, 61>>
  /\ base64Decode(res.val) = Ok(<<251, 255>>)

\* C24: for every integer v of 1..18446744073709551615 that setValue accepts
\* on a version-0 or version-1 transaction, a following getValue() returns
\* v and bytes 69..76 hold v as a big-endian unsigned 64-bit integer; the
\* same for setNonce / getNonce over 0..18446744073709551615 at bytes 77..84.
C24_Uint64FieldRoundTrip ==
  /\ (res.op = "setValue" /\ ~res.raised /\ res.ver \in {0, 1})
       => /\ Transaction_getValue(tx) = Ok(res.num)
          /\ res.num.mag = <<0>> \o slice(tx, 69, 77)
  /\ (res.op = "setNonce" /\ ~res.raised)
       => /\ Transaction_getNonce(tx) = Ok(res.num)
          /\ res.num.mag = <<0>> \o slice(tx, 77, 85)

\* a string of UTF-16 code units in which every surrogate is half of a pair
WellFormedUtf16(str) ==
  \A i \in 1..Len(str) :
    /\ str[i] \in 55296..56319 => (i < Len(str) /\ str[i + 1] \in 56320..57343)
    /\ str[i] \in 56320..57343 => (i > 1 /\ str[i - 1] \in 55296..56319)

sel25519(p, q, b) ==
  LET c == b * 65535
      t == BitAnd(c, BitXor(p, q))
  IN <<BitXor(p, t), BitXor(q, t)>>

\* sel25519 on every coordinate; a point of the stand-in has one
cswap(p, q, b) == sel25519(p, q, b)

\* (s[(i / 8) | 0] >> (i & 7)) & 1
scalarBit(s, i) == BitAnd(Shr(s[(i \div 8) + 1], i % 8), 1)

\* a loop that starts at the highest bit set in the scalar
scalarmultFirstSetBit(s) ==
  IF \E i \in 0..255 : scalarBit(s, i) = 1
  THEN CHOOSE i \in 0..255 : scalarBit(s, i) = 1 /\ \A j \in (i + 1)..255 : scalarBit(s, j) = 0
  ELSE -1

\* let i = 255
scalarmultFirst(s) == 255

\* 32-byte scalars: 0, 1, all bits set, the clamped scalar of K1, and a
\* reduced hash
Scalars ==
  {arrayNew(32), leBytes(1, 32), ArrayOf([i \in 1..32 |-> 255]),
   slice(clamp(sha512(Seed32)), 0, 32), slice(reduce(sha512(<<1, 2, 3>>)), 0, 32)}
\* the base point and another point
Points == {B, scalarbase(leBytes(12345, 32))}

Idle ==
  [pc |-> "idle", s |-> <<>>, q0 |-> 0, p |-> 0, q |-> 0, i |-> 0,
   iterations |-> 0, cswaps |-> 0, adds |-> 0, doubles |-> 0]

InitLadder ==
  /\ tx = Transaction_new
  /\ adr = Address_new
  /\ sk = K1
  /\ sig = NoSig
  /\ res = Idle
  /\ calls = 0
  /\ heap = NoHeap

\* scalarmult(p, q, s): p is set to the neutral element, i to 255, and the
\* loop test i >= 0 is made
ScalarmultEnter ==
  /\ res.pc = "idle"
  /\ \E s \in Scalars, q \in Points :
       \E first \in {scalarmultFirst(s)} :
         res' = [Idle EXCEPT !.pc = IF first >= 0 THEN "cswap" ELSE "done",
                             !.s = s, !.q0 = q, !.q = q, !.p = 0, !.i = first]
  /\ UNCHANGED <<heap, tx, adr, sk, sig, calls>>

\* cswap(p, q, b)
CswapFirst ==
  /\ res.pc = "cswap"
  /\ \E r \in {cswap(res.p, res.q, scalarBit(res.s, res.i))} :
       res' = [res EXCEPT !.pc = "add", !.p = r[1], !.q = r[2],
                          !.iterations = @ + 1, !.cswaps = @ + 1]
  /\ UNCHANGED <<heap, tx, adr, sk, sig, calls>>

\* add(q, p)
AddStep ==
  /\ res.pc = "add"
  /\ res' = [res EXCEPT !.pc = "double", !.q = add(res.q, res.p), !.adds = @ + 1]
  /\ UNCHANGED <<heap, tx, adr, sk, sig, calls>>

\* add(p, p)
DoubleStep ==
  /\ res.pc = "double"
  /\ res' = [res EXCEPT !.pc = "cswapBack", !.p = add(res.p, res.p), !.doubles = @ + 1]
  /\ UNCHANGED <<heap, tx, adr, sk, sig, calls>>

\* cswap(p, q, b), then --i and the loop test i >= 0
CswapSecond ==
  /\ res.pc = "cswapBack"
  /\ \E r \in {cswap(res.p, res.q, scalarBit(res.s, res.i))} :
       res' = [res EXCEPT !.pc = IF res.i - 1 >= 0 THEN "cswap" ELSE "done",
                          !.p = r[1], !.q = r[2], !.i = @ - 1, !.cswaps = @ + 1]
  /\ UNCHANGED <<heap, tx, adr, sk, sig, calls>>

NextLadder == ScalarmultEnter \/ CswapFirst \/ AddStep \/ DoubleStep \/ CswapSecond

SpecLadder == InitLadder /\ [][NextLadder]_vars

\* C26 as stated: scalarmult executes the same number of loop iterations,
\* 255, for every scalar value; each iteration does one conditional swap,
\* one point addition, one doubling and one conditional swap.
C26_LadderRuns255 ==
  res.pc = "done"
    => /\ res.iterations = 255
       /\ res.cswaps = 2 * res.iterations
       /\ res.adds = res.iterations
       /\ res.doubles = res.iterations

\* C26 as amended: scalarmult executes 256 loop iterations (i = 255 down to
\* 0) for every scalar value; each iteration does one conditional swap, one
\* point addition, one doubling and one conditional swap, and the position
\* in the loop determines how many of each have run, whatever the scalar.
C26_LadderRuns256 ==
  /\ res.pc = "done"
       => /\ res.iterations = 256 /\ res.i = -1
          /\ res.cswaps = 512 /\ res.adds = 256 /\ res.doubles = 256
  /\ res.pc \in {"cswap", "add", "double", "cswapBack"}
       => /\ res.i \in 0..255
          /\ res.iterations = (255 - res.i) + (IF res.pc = "cswap" THEN 0 ELSE 1)
          /\ res.adds = (255 - res.i) + (IF res.pc \in {"double", "cswapBack"} THEN 1 ELSE 0)
          /\ res.doubles = (255 - res.i) + (IF res.pc = "cswapBack" THEN 1 ELSE 0)
          /\ res.cswaps = 2 * (255 - res.i) + (IF res.pc = "cswap" THEN 0 ELSE 1)

\* the loop has ended for the clamped scalar of K1 (bit 255 clear, bit 254
\* set) after 256 iterations, and p is the multiple of q it was to compute
C26_Witness ==
  /\ res.pc = "done" /\ res.iterations = 256
  /\ res.s = slice(clamp(sha512(Seed32)), 0, 32)
  /\ scalarBit(res.s, 255) = 0 /\ scalarBit(res.s, 254) = 1
  /\ res.q0 = B
  /\ res.p = scalarmult(B, res.s)
  /\ pack(res.p) = PK1.bytes

\* the setters of a Transaction
Setters ==
  {"setVersion", "setSender", "setRecipient", "setValue", "setNonce", "setPrefix",
   "setName", "setProfitPercent", "setFeePercent", "setSignature"}

\* C27: after t.sign(k) has succeeded and t.verify() is true, a later
\* successful setter call that changes at least one of bytes 0..84 or of
\* the signature bytes 85..148 makes t.verify() return false (here: the
\* first such call after the signing).
C27_ChangeAfterSignInvalidates ==
  [][(/\ res.op = "sign" /\ ~res.raised
      /\ Transaction_verify(tx) = Ok(TRUE)
      /\ res'.op \in Setters /\ ~res'.raised
      /\ slice(tx', 0, 149) # slice(tx, 0, 149))
     => Transaction_verify(tx') = Ok(FALSE)]_vars

\* the bytes of its own field, as 0-based positions, for each setter
FieldOf(op) ==
  IF op = "setVersion" THEN 0..0
  ELSE IF op = "setSender" THEN 1..34
  ELSE IF op = "setRecipient" THEN 35..68
  ELSE IF op = "setPrefix" THEN 35..36
  ELSE IF op = "setProfitPercent" THEN 37..38
  ELSE IF op = "setFeePercent" THEN 39..40
  ELSE IF op = "setName" THEN 41..76
  ELSE IF op = "setValue" THEN 69..76
  ELSE IF op = "setNonce" THEN 77..84
  ELSE 85..148

\* C28: each successful Transaction setter changes only the bytes of its own
\* field and leaves every other byte of the 150-byte record unchanged:
\* setVersion only byte 0, setSender only bytes 1..34, setRecipient only
\* 35..68, setPrefix only 35..36, setProfitPercent only 37..38,
\* setFeePercent only 39..40, setName only 41..76, setValue only 69..76,
\* setNonce only 77..84, setSignature only 85..148.
C28_SetterWritesOwnFieldOnly ==
  [][(res'.op \in Setters /\ ~res'.raised)
     => /\ Len(tx') = Len(tx)
        /\ \A i \in 0..149 : i \notin FieldOf(res'.op) => tx'[i + 1] = tx[i + 1]]_vars

\* values for the last byte of a record
LastBytes == {0, 1, 255}

C30_SingleSubstitutionRejected ==
  (/\ res.op = "fromBech32"
   /\ ~Address_fromBech32(res.arg.of).raised
   /\ res.arg.at > lastIndexOf(toLowerCase(res.arg.of), 49) + 1
   /\ indexOf(bech32Alphabet, res.arg.by) # -1
   /\ res.arg.by # res.arg.of[res.arg.at])
  => res.raised

====
